---- MODULE Spec2Model ----
(***************************************************************************)
(* Stack-counting decision engine of LeafDepot (core/detection/processors): *)
(* the full-layer classifier (CoverageBasedDetector), the three strategy    *)
(* processors (Full / Partial / Single) and StackProcessorFactory.          *)
(*                                                                          *)
(* Geometry is modelled with integer pixel coordinates.  The floating-point *)
(* quotients of the source (coverage, cv_gap, the box center 0.5*(x1+x2))   *)
(* are kept as exact rationals and compared by cross-multiplication.        *)
(***************************************************************************)
EXTENDS Integers, Sequences, FiniteSets, TLC

VARIABLES
    layers,            \* the caller's layer objects (mutated in place by detect)
    layers0,           \* history: the layer list as handed to the first operation
    template_layers,   \* template passed to process / returned by the template database
    pile_roi,          \* pile ROI passed to process / returned by scene selection
    yolo_detections,   \* raw detector output handed on to the single-layer processor
    depth_image,       \* StackProcessorFactory.depth_image
    op,                \* the operation that produced the current results
    calls,             \* number of Factory.process calls made on these objects
    detection_result,  \* last ClassificationResult (plus pile_roi as the factory attaches it)
    invoked,           \* strategy processors invoked by the last operation, in order
    processing_result, \* last ProcessingResult (or the exception the processor raised)
    prev_result,       \* processing_result of the previous Factory.process call
    total_count,       \* value returned (or exception raised) by Factory.process / count
    enable_debug,      \* enable_debug of the factory and of its processors
    env,               \* files count() was given, and what it loaded and called
    depth_csv,         \* a depth matrix as load_depth_matrix returns it
    depth_sample,      \* last result of depth sampling
    coverage_result,   \* last result of _calc_coverage called on its own
    prepared_boxes,    \* the boxes scene selection hands to the layer clusterer
    enable_visualization, \* enable_visualization of the factory
    height_filter_ratio,  \* height_filter_ratio of the detector, as num / den
    invocations        \* count() invocations in progress on one factory

vars == <<layers, layers0, template_layers, pile_roi, yolo_detections, depth_image,
          op, calls, detection_result, invoked, processing_result, prev_result,
          total_count, enable_debug, env, depth_csv, depth_sample, coverage_result,
          prepared_boxes, enable_visualization, height_filter_ratio, invocations>>

----------------------------------------------------------------------------
(* Bounds of the model *)

MaxLayers == 2
MaxBoxes == 3
MaxDets == 2
MaxCalls == 2
MaxPileBoxes == 5
MaxInvocations == 2
MaxCounts == 2

(* Constructor defaults of CoverageBasedDetector, as fractions *)
coverage_threshold_num == 9
coverage_threshold_den == 10
cv_gap_threshold_num == 4
cv_gap_threshold_den == 10
height_filter_ratio_num == 5
height_filter_ratio_den == 10
(* remove_fake_top_layer's default width_ratio_thr *)
width_ratio_thr_num == 7
width_ratio_thr_den == 10

----------------------------------------------------------------------------
(* Generic helpers *)

Abs(n) == IF n < 0 THEN -n ELSE n

RECURSIVE SumSeq(_)
SumSeq(s) ==
    IF s = <<>> THEN 0 ELSE Head(s) + SumSeq(Tail(s))

RECURSIVE MaxSeq(_)
MaxSeq(s) ==
    IF Len(s) = 1 THEN s[1]
    ELSE LET m == MaxSeq(Tail(s)) IN IF Head(s) >= m THEN Head(s) ELSE m

RECURSIVE MinSeq(_)
MinSeq(s) ==
    IF Len(s) = 1 THEN s[1]
    ELSE LET m == MinSeq(Tail(s)) IN IF Head(s) <= m THEN Head(s) ELSE m

Map(s, F(_)) == [i \in 1..Len(s) |-> F(s[i])]

Reverse(s) == [i \in 1..Len(s) |-> s[Len(s) + 1 - i]]

(* Python's s[:n] for 0 <= n *)
Prefix(s, n) == SubSeq(s, 1, IF n < Len(s) THEN n ELSE Len(s))

(* Stable insertion of x into an ascending sequence of integers *)
RECURSIVE InsertInt(_, _)
InsertInt(s, x) ==
    IF s = <<>> THEN <<x>>
    ELSE IF x < Head(s) THEN <<x>> \o s
    ELSE <<Head(s)>> \o InsertInt(Tail(s), x)

RECURSIVE SortInts(_)
SortInts(s) ==
    IF s = <<>> THEN <<>>
    ELSE InsertInt(SortInts(SubSeq(s, 1, Len(s) - 1)), s[Len(s)])

----------------------------------------------------------------------------
(* CoverageBasedDetector *)

get_box_height(box) == Abs(box.roi.y2 - box.roi.y1)

(* variant of filter_boxes_by_height: a box of exactly ratio * max_height is dropped *)
filter_boxes_by_height_strict(boxes) ==
    IF boxes = <<>> THEN boxes
    ELSE LET box_heights == Map(boxes, get_box_height)
             max_height == MaxSeq(box_heights)
             Keep(box) == get_box_height(box) * height_filter_ratio_den
                              > max_height * height_filter_ratio_num
         IN SelectSeq(boxes, Keep)

(* variant of filter_boxes_by_height_ratio: a box of exactly ratio * max_height is *)
(* dropped                                                                         *)
filter_boxes_by_height_ratio_strict(boxes, ratio) ==
    IF boxes = <<>> THEN boxes
    ELSE SelectSeq(boxes,
             LAMBDA box : get_box_height(box) * ratio.den
                              > MaxSeq(Map(boxes, get_box_height)) * ratio.num)

(* _filter_boxes_by_height for a detector built with height_filter_ratio =        *)
(* ratio.num / ratio.den (ratio.den > 0): height >= max_height * ratio            *)
filter_boxes_by_height_ratio(boxes, ratio) ==
    IF boxes = <<>> THEN boxes
    ELSE SelectSeq(boxes,
             LAMBDA box : get_box_height(box) * ratio.den
                              >= MaxSeq(Map(boxes, get_box_height)) * ratio.num)

DefaultRatio == [num |-> height_filter_ratio_num, den |-> height_filter_ratio_den]

filter_boxes_by_height(boxes) == filter_boxes_by_height_ratio(boxes, DefaultRatio)

(* sorted(intervals, key=x1): stable insertion by x1 *)
RECURSIVE InsertInterval(_, _)
InsertInterval(s, iv) ==
    IF s = <<>> THEN <<iv>>
    ELSE IF iv[1] < Head(s)[1] THEN <<iv>> \o s
    ELSE <<Head(s)>> \o InsertInterval(Tail(s), iv)

RECURSIVE SortIntervals(_)
SortIntervals(s) ==
    IF s = <<>> THEN <<>>
    ELSE InsertInterval(SortIntervals(SubSeq(s, 1, Len(s) - 1)), s[Len(s)])

(* the merge loop of _calc_coverage: a new interval is opened only when s > end *)
RECURSIVE MergeIntervals(_, _)
MergeIntervals(merged, rest) ==
    IF rest = <<>> THEN merged
    ELSE LET s == Head(rest)[1]
             e == Head(rest)[2]
             n == Len(merged)
         IN IF merged = <<>> \/ s > merged[n][2]
            THEN MergeIntervals(Append(merged, <<s, e>>), Tail(rest))
            ELSE MergeIntervals(
                     [merged EXCEPT ![n] = <<merged[n][1],
                                             IF merged[n][2] >= e THEN merged[n][2] ELSE e>>],
                     Tail(rest))

cover_width(boxes) ==
    SumSeq(Map(MergeIntervals(<<>>,
                   SortIntervals(Map(boxes, LAMBDA b : <<b.roi.x1, b.roi.x2>>))),
               LAMBDA m : m[2] - m[1]))

(* cover_w / pile_w divides by zero for a zero-width ROI and a non-empty box list *)
calc_coverage_raises(boxes, roi) ==
    boxes # <<>> /\ roi.x2 - roi.x1 = 0

(* min(1.0, cover_w / pile_w) as a fraction num/den with den > 0 *)
capped_quotient(cover_w, pile_w) ==
    IF pile_w < 0 THEN [num |-> -cover_w, den |-> -pile_w]
    ELSE IF cover_w > pile_w THEN [num |-> 1, den |-> 1]
    ELSE [num |-> cover_w, den |-> pile_w]

calc_coverage(boxes, roi) ==
    IF boxes = <<>> THEN [num |-> 0, den |-> 1]
    ELSE capped_quotient(cover_width(boxes), roi.x2 - roi.x1)

(* The square of std(gaps)/mean(gaps) as a fraction: with n gaps of sum S and     *)
(* sum of squares Q, (std/mean)^2 = (n*Q - S*S) / (S*S).  Centers are doubled,    *)
(* which leaves the quotient unchanged.                                            *)
cv_squared(n, S, Q) ==
    IF S = 0 THEN [sq_num |-> 0, sq_den |-> 1]
    ELSE [sq_num |-> n * Q - S * S, sq_den |-> S * S]

cv_of_gaps(gaps) ==
    cv_squared(Len(gaps), SumSeq(gaps), SumSeq(Map(gaps, LAMBDA g : g * g)))

consecutive_gaps(centers) ==
    [i \in 1..(Len(centers) - 1) |-> centers[i + 1] - centers[i]]

calc_cv_gap(boxes) ==
    IF Len(boxes) < 3 THEN [sq_num |-> 0, sq_den |-> 1]
    ELSE cv_of_gaps(consecutive_gaps(
             SortInts(Map(boxes, LAMBDA b : b.roi.x1 + b.roi.x2))))

(* coverage > self.coverage_threshold *)
coverage_above_threshold(coverage) ==
    coverage.num * coverage_threshold_den > coverage_threshold_num * coverage.den

(* cv_gap < self.cv_gap_threshold *)
cv_gap_below_threshold(cv_gap) ==
    cv_gap.sq_num * cv_gap_threshold_den * cv_gap_threshold_den
        < cv_gap_threshold_num * cv_gap_threshold_num * cv_gap.sq_den

(* sorted(layers, key=avg_y) as the positions of the layers in sorted order (stable) *)
RECURSIVE InsertByAvgY(_, _, _)
InsertByAvgY(ls, order, i) ==
    IF order = <<>> THEN <<i>>
    ELSE IF ls[i].avg_y < ls[Head(order)].avg_y THEN <<i>> \o order
    ELSE <<Head(order)>> \o InsertByAvgY(ls, Tail(order), i)

RECURSIVE OrderByAvgY(_, _)
OrderByAvgY(ls, n) ==
    IF n = 0 THEN <<>> ELSE InsertByAvgY(ls, OrderByAvgY(ls, n - 1), n)

sorted_by_avg_y(ls) == Map(OrderByAvgY(ls, Len(ls)), LAMBDA i : ls[i])

(* variant of top_position: the first layer of the caller's list is taken as top *)
top_position_first(ls) == 1

(* position, in the caller's list, of the layer detect treats as the top layer *)
top_position(ls) == OrderByAvgY(ls, Len(ls))[1]

(* variant of expected_top: C_top read from the last template entry *)
expected_top_from_last(template) == IF template # <<>> THEN template[Len(template)] ELSE 0

expected_top(template) == IF template # <<>> THEN template[1] ELSE 0

(* variant of observed_top: O_top counted before the height filter *)
observed_top_unfiltered(raw_boxes, filtered_boxes) == Len(raw_boxes)

observed_top(raw_boxes, filtered_boxes) == Len(filtered_boxes)

(* variant of decide_status: the coverage rule is tried before the template match *)
decide_status_coverage_first(O_top, C_top, coverage, cv_gap) ==
    IF coverage_above_threshold(coverage) /\ cv_gap_below_threshold(cv_gap)
    THEN [status |-> "full", full |-> TRUE, reason |-> "continuous_filled",
          top_layer |-> <<[index |-> 1, expected |-> C_top, observed |-> O_top]>>]
    ELSE IF O_top = C_top
    THEN [status |-> "full", full |-> TRUE, reason |-> "match_template",
          top_layer |-> <<[index |-> 1, expected |-> C_top, observed |-> O_top]>>]
    ELSE [status |-> "partial", full |-> FALSE, reason |-> "low_coverage_or_gap",
          top_layer |-> <<[index |-> 1, expected |-> C_top, observed |-> O_top]>>]

(* the three-way decision of detect for two or more layers *)
decide_status(O_top, C_top, coverage, cv_gap) ==
    IF O_top = C_top
    THEN [status |-> "full", full |-> TRUE, reason |-> "match_template",
          top_layer |-> <<[index |-> 1, expected |-> C_top, observed |-> O_top]>>]
    ELSE IF coverage_above_threshold(coverage) /\ cv_gap_below_threshold(cv_gap)
    THEN [status |-> "full", full |-> TRUE, reason |-> "continuous_filled",
          top_layer |-> <<[index |-> 1, expected |-> C_top, observed |-> O_top]>>]
    ELSE [status |-> "partial", full |-> FALSE, reason |-> "low_coverage_or_gap",
          top_layer |-> <<[index |-> 1, expected |-> C_top, observed |-> O_top]>>]

NoException == "none"

(* variant of detect_filtered: the filtered boxes go into a copy of the top layer, *)
(* the caller's list is left as it was                                             *)
detect_filtered_copy(ls, t, top_layer_boxes, template, roi) ==
    IF Len(ls) = 1
    THEN [raised |-> NoException,
          layers |-> ls,
          result |-> [status |-> "single_layer", full |-> FALSE,
                      reason |-> "single_layer_detected",
                      top_layer |-> <<[index |-> 1, expected |-> expected_top(template),
                                       observed |-> observed_top(ls[t].boxes,
                                                                 top_layer_boxes)]>>]]
    ELSE IF calc_coverage_raises(top_layer_boxes, roi)
    THEN [raised |-> "ZeroDivisionError",
          layers |-> ls,
          result |-> [status |-> "raised", full |-> FALSE,
                      reason |-> "raised", top_layer |-> <<>>]]
    ELSE [raised |-> NoException,
          layers |-> ls,
          result |-> decide_status(observed_top(ls[t].boxes, top_layer_boxes),
                                   expected_top(template),
                                   calc_coverage(top_layer_boxes, roi),
                                   calc_cv_gap(top_layer_boxes))]

(* detect on a non-empty list whose top layer (position t in the caller's list)   *)
(* has been height-filtered: top_layer["boxes"] is replaced in place, then the     *)
(* layer count decides before any statistic is computed                            *)
detect_filtered(ls, t, top_layer_boxes, template, roi) ==
    IF Len(ls) = 1
    THEN [raised |-> NoException,
          layers |-> [ls EXCEPT ![t].boxes = top_layer_boxes],
          result |-> [status |-> "single_layer", full |-> FALSE,
                      reason |-> "single_layer_detected",
                      top_layer |-> <<[index |-> 1, expected |-> expected_top(template),
                                       observed |-> observed_top(ls[t].boxes,
                                                                 top_layer_boxes)]>>]]
    ELSE IF calc_coverage_raises(top_layer_boxes, roi)
    THEN [raised |-> "ZeroDivisionError",
          layers |-> [ls EXCEPT ![t].boxes = top_layer_boxes],
          result |-> [status |-> "raised", full |-> FALSE,
                      reason |-> "raised", top_layer |-> <<>>]]
    ELSE [raised |-> NoException,
          layers |-> [ls EXCEPT ![t].boxes = top_layer_boxes],
          result |-> decide_status(observed_top(ls[t].boxes, top_layer_boxes),
                                   expected_top(template),
                                   calc_coverage(top_layer_boxes, roi),
                                   calc_cv_gap(top_layer_boxes))]

(* detect: the result it returns (top_layer is <<>> for None), the exception it   *)
(* raises, and the caller's layer list after the in-place update of the top layer *)
detect(ls, template, roi, depth) ==
    IF ls = <<>>
    THEN [raised |-> NoException, layers |-> ls,
          result |-> [status |-> "partial", full |-> FALSE,
                      reason |-> "empty_layers", top_layer |-> <<>>]]
    ELSE detect_filtered(ls, top_position(ls),
                         filter_boxes_by_height(ls[top_position(ls)].boxes),
                         template, roi)

----------------------------------------------------------------------------
(* DepthProcessor.  A depth matrix is a sequence of rows of depth values in mm;   *)
(* a normalised coordinate is a fraction [num, den] with den > 0; Python's        *)
(* 0-based pixel (x, y) is matrix[y + 1][x + 1].                                  *)

(* int(): truncation toward zero of n / d, d > 0 *)
Trunc(n, d) == IF n >= 0 THEN n \div d ELSE -((-n) \div d)

pixel_index(norm, size) == Trunc(norm.num * size, norm.den)

matrix_height(depth_matrix) == Len(depth_matrix)

matrix_width(depth_matrix) == IF depth_matrix = <<>> THEN 0 ELSE Len(depth_matrix[1])

out_of_range(depth_matrix, x, y) ==
    x < 0 \/ x >= matrix_width(depth_matrix) \/ y < 0 \/ y >= matrix_height(depth_matrix)

(* bounds of the region_size x region_size window (region_size = 5) clipped to    *)
(* the matrix: [start, end) in 0-based pixels                                     *)
region_start(c) == IF c - 2 > 0 THEN c - 2 ELSE 0

region_end(c, size) == IF c + 3 < size THEN c + 3 ELSE size

(* the positive samples of the window, row by row *)
window_values(depth_matrix, x_start, x_end, y_start, y_end) ==
    [k \in 1..((y_end - y_start) * (x_end - x_start)) |->
        depth_matrix[y_start + ((k - 1) \div (x_end - x_start)) + 1]
                    [x_start + ((k - 1) % (x_end - x_start)) + 1]]

valid_points(depth_matrix, x, y) ==
    SelectSeq(window_values(depth_matrix,
                            region_start(x), region_end(x, matrix_width(depth_matrix)),
                            region_start(y), region_end(y, matrix_height(depth_matrix))),
              LAMBDA value : value > 0)

(* twice np.median of a non-empty list *)
doubled_median(sorted_values) ==
    IF Len(sorted_values) % 2 = 1
    THEN 2 * sorted_values[(Len(sorted_values) + 1) \div 2]
    ELSE sorted_values[Len(sorted_values) \div 2]
         + sorted_values[Len(sorted_values) \div 2 + 1]

(* abs(value - median_value) <= 500 *)
median_filter(values, median2) ==
    SelectSeq(values, LAMBDA value : Abs(2 * value - median2) <= 1000)

(* abs(value - mean) <= 2 * std, with n values of sum S and sum of squares Q:     *)
(* (n*value - S)^2 <= 4 * (n*Q - S^2)                                             *)
loose_filter(values, n, S, Q) ==
    SelectSeq(values, LAMBDA value :
                  (n * value - S) * (n * value - S) <= 4 * (n * Q - S * S))

filter_points(values, by_median) ==
    IF Len(by_median) < 5
    THEN loose_filter(values, Len(values), SumSeq(values),
                      SumSeq(Map(values, LAMBDA value : value * value)))
    ELSE by_median

(* round(S / n, 1) in tenths, ties to even *)
round_tenths(S, n) ==
    IF 2 * ((10 * S) % n) < n THEN (10 * S) \div n
    ELSE IF 2 * ((10 * S) % n) > n THEN (10 * S) \div n + 1
    ELSE IF ((10 * S) \div n) % 2 = 0 THEN (10 * S) \div n
    ELSE (10 * S) \div n + 1

ExtractResult(raised, success, num, den) ==
    [raised |-> raised, success |-> success, value |-> [num |-> num, den |-> den]]

(* depth/depth_processor.py (the class core.detection.depth exports): with no      *)
(* positive sample in the window, filtered_points is never bound and the return   *)
(* statement reads it                                                             *)
extract_filtered(values, filtered_points) ==
    IF values = <<>> THEN ExtractResult("UnboundLocalError", FALSE, 0, 1)
    ELSE IF filtered_points = <<>> THEN ExtractResult(NoException, TRUE, 0, 1)
    ELSE ExtractResult(NoException, TRUE,
                       round_tenths(SumSeq(filtered_points), Len(filtered_points)), 10)

extract_values(values) ==
    IF values = <<>> THEN extract_filtered(values, <<>>)
    ELSE extract_filtered(values,
             filter_points(values, median_filter(values, doubled_median(SortInts(values)))))

extract_depth_at_position(depth_matrix, norm_x, norm_y) ==
    IF out_of_range(depth_matrix, pixel_index(norm_x, matrix_width(depth_matrix)),
                    pixel_index(norm_y, matrix_height(depth_matrix)))
    THEN ExtractResult(NoException, FALSE, 0, 1)
    ELSE extract_values(valid_points(depth_matrix,
                                     pixel_index(norm_x, matrix_width(depth_matrix)),
                                     pixel_index(norm_y, matrix_height(depth_matrix))))

(* depth/processor.py: the same sampling with early returns of a failure result *)
processor_extract_filtered(filtered_points) ==
    IF filtered_points = <<>> THEN ExtractResult(NoException, FALSE, 0, 1)
    ELSE ExtractResult(NoException, TRUE, SumSeq(filtered_points), Len(filtered_points))

processor_extract_values(values) ==
    IF values = <<>> THEN ExtractResult(NoException, FALSE, 0, 1)
    ELSE processor_extract_filtered(
             filter_points(values, median_filter(values, doubled_median(SortInts(values)))))

processor_extract_depth_at_position(depth_matrix, norm_x, norm_y) ==
    IF out_of_range(depth_matrix, pixel_index(norm_x, matrix_width(depth_matrix)),
                    pixel_index(norm_y, matrix_height(depth_matrix)))
    THEN ExtractResult(NoException, FALSE, 0, 1)
    ELSE processor_extract_values(
             valid_points(depth_matrix,
                          pixel_index(norm_x, matrix_width(depth_matrix)),
                          pixel_index(norm_y, matrix_height(depth_matrix))))

----------------------------------------------------------------------------
(* Strategy processors.  A ProcessingResult is                                    *)
(* [raised, total (<<n>>, or <<>> when the processor raised), strategy, details]. *)

Returned(total, strategy, details) ==
    [raised |-> NoException, total |-> <<total>>, strategy |-> strategy,
     details |-> details]

Raised(exception, n_detected, n_template) ==
    [raised |-> exception, total |-> <<>>, strategy |-> "raised",
     details |-> [n_detected |-> n_detected, n_template |-> n_template]]

(* TemplateBasedFullProcessor.process *)
full_details(n_detected, template) ==
    [n_detected |-> n_detected, n_template |-> Len(template),
     template_sum |-> SumSeq(template)]

(* variant of full_process: a pile with fewer layers than the template is still   *)
(* credited with the whole template                                               *)
full_process_whole_template(ls, template, dr) ==
    IF Len(ls) = Len(template)
    THEN Returned(SumSeq(template), "full_match", full_details(Len(ls), template))
    ELSE IF Len(ls) < Len(template)
    THEN Returned(SumSeq(template), "partial_visible", full_details(Len(ls), template))
    ELSE Returned(SumSeq(template), "exceed_template", full_details(Len(ls), template))

full_process(ls, template, dr) ==
    IF Len(ls) = Len(template)
    THEN Returned(SumSeq(template), "full_match", full_details(Len(ls), template))
    ELSE IF Len(ls) < Len(template)
    THEN Returned(SumSeq(Prefix(template, Len(ls))), "partial_visible",
                  full_details(Len(ls), template))
    ELSE Returned(SumSeq(template), "exceed_template", full_details(Len(ls), template))

(* the ROI both the partial and the single-layer processor infer when             *)
(* detection_result carries no pile_roi                                           *)
infer_pile_roi(boxes) ==
    IF boxes # <<>>
    THEN [x1 |-> MinSeq(Map(boxes, LAMBDA b : IF b.roi.x1 <= b.roi.x2 THEN b.roi.x1 ELSE b.roi.x2)),
          y1 |-> MinSeq(Map(boxes, LAMBDA b : IF b.roi.y1 <= b.roi.y2 THEN b.roi.y1 ELSE b.roi.y2)),
          x2 |-> MaxSeq(Map(boxes, LAMBDA b : IF b.roi.x1 >= b.roi.x2 THEN b.roi.x1 ELSE b.roi.x2)),
          y2 |-> MaxSeq(Map(boxes, LAMBDA b : IF b.roi.y1 >= b.roi.y2 THEN b.roi.y1 ELSE b.roi.y2))]
    ELSE [x1 |-> 0, y1 |-> 0, x2 |-> 1000, y2 |-> 1000]

effective_pile_roi(dr, boxes) ==
    IF dr.pile_roi # <<>> THEN dr.pile_roi[1] ELSE infer_pile_roi(boxes)

(* _calculate_top_layer_count_with_depth.  csv_path is a record                   *)
(* [path, matrix, image_size]: path "None", "missing" (no such file) or "csv";    *)
(* matrix the depth matrix the file holds; image_size <<w, h>> when pile_roi      *)
(* carries image_width / image_height, else <<>>.                                 *)

(* the box center as a normalised coordinate clamped to [0, 1]; center2 is the    *)
(* doubled center                                                                 *)
center_norm(center2, image_extent) ==
    IF center2 <= 0 THEN [num |-> 0, den |-> 1]
    ELSE IF center2 >= 2 * image_extent THEN [num |-> 1, den |-> 1]
    ELSE [num |-> center2, den |-> 2 * image_extent]

image_width(csv_path) ==
    IF csv_path.image_size # <<>> THEN csv_path.image_size[1]
    ELSE matrix_width(csv_path.matrix)

image_height(csv_path) ==
    IF csv_path.image_size # <<>> THEN csv_path.image_size[2]
    ELSE matrix_height(csv_path.matrix)

sample_box(box, csv_path) ==
    extract_depth_at_position(
        csv_path.matrix,
        center_norm(box.roi.x1 + box.roi.x2, image_width(csv_path)),
        center_norm(box.roi.y1 + box.roi.y2, image_height(csv_path)))

(* the loop over the top boxes inside the try block: the first exception ends it, *)
(* a result with success and value > 0 is appended to depth_values                *)
RECURSIVE sample_boxes(_, _, _)
sample_boxes(boxes, csv_path, depth_values) ==
    IF boxes = <<>> THEN [raised |-> NoException, depth_values |-> depth_values]
    ELSE IF sample_box(Head(boxes), csv_path).raised # NoException
    THEN [raised |-> sample_box(Head(boxes), csv_path).raised, depth_values |-> depth_values]
    ELSE sample_boxes(Tail(boxes), csv_path,
                      IF sample_box(Head(boxes), csv_path).success
                         /\ sample_box(Head(boxes), csv_path).value.num > 0
                      THEN Append(depth_values, sample_box(Head(boxes), csv_path).value)
                      ELSE depth_values)

(* the CSV branch: whatever the sampling gives or raises (the except clause),     *)
(* base_count = len(top_layer_boxes)                                              *)
count_with_csv(top_layer_boxes, sampling) ==
    [raised |-> NoException, count |-> Len(top_layer_boxes),
     caught |-> sampling.raised, depth_values |-> sampling.depth_values]

(* shape of the depth image array the factory has loaded *)
DepthImageShape == [height |-> 12, width |-> 12]

(* the array branch slices depth_image[y_top:y_bottom, x_left:x_right] from the   *)
(* pile ROI (the layer roi carries no y_top / y_bottom) when all four indices are *)
(* inside the array; with enable_debug it prints np.mean / np.min / np.max of the *)
(* slice, and np.min of an empty slice raises ValueError                          *)
depth_roi_in_range(roi) ==
    /\ 0 <= roi.y1 /\ roi.y1 < DepthImageShape.height
    /\ 0 <= roi.y2 /\ roi.y2 < DepthImageShape.height
    /\ 0 <= roi.x1 /\ roi.x1 < DepthImageShape.width
    /\ 0 <= roi.x2 /\ roi.x2 < DepthImageShape.width

depth_roi_is_empty(roi) == roi.y1 >= roi.y2 \/ roi.x1 >= roi.x2

count_with_array(top_layer_boxes, roi, debug) ==
    IF top_layer_boxes # <<>> /\ depth_roi_in_range(roi) /\ debug /\ depth_roi_is_empty(roi)
    THEN [raised |-> "ValueError", count |-> 0, caught |-> NoException, depth_values |-> <<>>]
    ELSE [raised |-> NoException, count |-> Len(top_layer_boxes),
          caught |-> NoException, depth_values |-> <<>>]

count_without_depth(top_layer_boxes) ==
    [raised |-> NoException, count |-> Len(top_layer_boxes),
     caught |-> NoException, depth_values |-> <<>>]

calculate_top_layer_count_with_depth(top_layer_boxes, roi, depth, csv_path, debug) ==
    IF depth = "None" /\ csv_path.path = "None" THEN count_without_depth(top_layer_boxes)
    ELSE IF csv_path.path = "csv"
    THEN count_with_csv(top_layer_boxes, sample_boxes(top_layer_boxes, csv_path, <<>>))
    ELSE IF depth # "None" THEN count_with_array(top_layer_boxes, roi, debug)
    ELSE count_without_depth(top_layer_boxes)

(* variant of lower_layers_sum: the slice drops the first entry, template[1:] *)
lower_layers_sum_without_first(template) ==
    IF Len(template) > 1 THEN SumSeq(Tail(template)) ELSE 0

lower_layers_sum(template) ==
    IF Len(template) > 1 THEN SumSeq(SubSeq(template, 1, Len(template) - 1)) ELSE 0

(* TemplateBasedPartialProcessor.process; csv_path is depth_matrix_csv_path after *)
(* step 0 (the processor's own depth-image processing) has replaced it or not     *)
partial_result(n_detected, template, top_layer_boxes, top_layer_observed, lower) ==
    Returned(lower + top_layer_observed, "partial_with_template",
             [n_detected |-> n_detected, n_template |-> Len(template),
              top_layer_observed |-> top_layer_observed,
              lower_layers_sum |-> lower,
              top_layer_boxes |-> top_layer_boxes])

partial_counted(ls, template, counted) ==
    IF counted.raised # NoException
    THEN Raised(counted.raised, Len(ls), Len(template))
    ELSE partial_result(Len(ls), template, ls[1].boxes, counted.count,
                        lower_layers_sum(template))

partial_process(ls, template, dr, depth, csv_path, debug) ==
    IF ls = <<>> THEN Raised("ValueError", Len(ls), Len(template))
    ELSE partial_counted(ls, template,
             calculate_top_layer_count_with_depth(
                 ls[1].boxes, effective_pile_roi(dr, ls[1].boxes), depth, csv_path, debug))

(* variant of center_in_roi: a center on the ROI border counts as outside *)
center_strictly_in_roi(det, roi) ==
    /\ 2 * roi.x1 < det.x1 + det.x2
    /\ det.x1 + det.x2 < 2 * roi.x2
    /\ 2 * roi.y1 < det.y1 + det.y2
    /\ det.y1 + det.y2 < 2 * roi.y2

(* pile_roi.x1 <= 0.5*(x1+x2) <= pile_roi.x2 and likewise for y, doubled *)
center_in_roi(det, roi) ==
    /\ 2 * roi.x1 <= det.x1 + det.x2
    /\ det.x1 + det.x2 <= 2 * roi.x2
    /\ 2 * roi.y1 <= det.y1 + det.y2
    /\ det.y1 + det.y2 <= 2 * roi.y2

(* the top-class detections, narrowed to those centred inside the pile ROI *)
top_class_boxes(dets, roi) ==
    SelectSeq(SelectSeq(dets, LAMBDA det : det.cls = "top"),
              LAMBDA det : center_in_roi(det, roi))

single_result(n_detected, template, layer_boxes, top_boxes) ==
    IF top_boxes # <<>>
    THEN Returned(Len(top_boxes), "single_layer_with_top_class",
                  [n_detected |-> n_detected, n_template |-> Len(template),
                   observed |-> Len(top_boxes), layer_boxes |-> layer_boxes,
                   top_boxes |-> top_boxes])
    ELSE Returned(Len(layer_boxes), "single_layer_fallback",
                  [n_detected |-> n_detected, n_template |-> Len(template),
                   observed |-> Len(layer_boxes), layer_boxes |-> layer_boxes,
                   top_boxes |-> top_boxes])

(* TemplateBasedSingleLayerProcessor.process *)
single_layer_process(ls, template, dr) ==
    IF ls = <<>> THEN Raised("ValueError", Len(ls), Len(template))
    ELSE single_result(Len(ls), template, ls[1].boxes,
                       top_class_boxes(dr.yolo_detections,
                                       effective_pile_roi(dr, ls[1].boxes)))

----------------------------------------------------------------------------
(* StackProcessorFactory *)

(* variant of select_processor: no branch for single_layer *)
select_processor_without_single(status, is_full) ==
    IF status = "full" \/ is_full THEN "full" ELSE "partial"

(* the if / elif / else of Factory.process over (status, full) *)
select_processor(status, is_full) ==
    IF status = "single_layer" THEN "single"
    ELSE IF status = "full" \/ is_full THEN "full"
    ELSE "partial"

run_processor(name, ls, template, dr, depth, csv_path, debug) ==
    IF name = "single" THEN single_layer_process(ls, template, dr)
    ELSE IF name = "full" THEN full_process(ls, template, dr)
    ELSE partial_process(ls, template, dr, depth, csv_path, debug)

BlankDetection(roi_opt, dets) ==
    [status |-> "none", full |-> FALSE, reason |-> "none", top_layer |-> <<>>,
     pile_roi |-> roi_opt, yolo_detections |-> dets]

NoResult ==
    [raised |-> NoException, total |-> <<>>, strategy |-> "none",
     details |-> [n_detected |-> 0, n_template |-> 0]]

process_result(d, dr, name, r) ==
    [layers |-> d.layers, detection_result |-> dr, invoked |-> <<name>>,
     processing_result |-> r,
     total_count |-> [raised |-> r.raised, returned |-> r.total, via |-> "process"]]

dispatch(d, dr, name, template, depth, csv_path, debug) ==
    process_result(d, dr, name,
                   run_processor(name, d.layers, template, dr, depth, csv_path, debug))

classified(d, dr, template, depth, csv_path, debug) ==
    IF d.raised # NoException
    THEN [layers |-> d.layers, detection_result |-> dr, invoked |-> <<>>,
          processing_result |-> Raised(d.raised, Len(d.layers), Len(template)),
          total_count |-> [raised |-> d.raised, returned |-> <<>>, via |-> "process"]]
    ELSE dispatch(d, dr, select_processor(dr.status, dr.full), template, depth, csv_path,
                  debug)

attach_inputs(d, roi, dets, template, depth, csv_path, debug) ==
    classified(d, [status |-> d.result.status, full |-> d.result.full,
                   reason |-> d.result.reason, top_layer |-> d.result.top_layer,
                   pile_roi |-> <<roi>>, yolo_detections |-> dets],
               template, depth, csv_path, debug)

(* Factory.process: classifier, then exactly the selected processor; an exception *)
(* of either propagates to the caller                                             *)
factory_process(ls, template, roi, dets, depth, csv_path, debug) ==
    attach_inputs(detect(ls, template, roi, depth), roi, dets, template, depth, csv_path,
                  debug)

(* remove_fake_top_layer: the extent it compares is max - min over the member     *)
(* boxes' y1 / y2 (the layer roi carries no "y2" key)                             *)
extent(ys) == MaxSeq(ys) - MinSeq(ys)

layer_width(l) ==
    extent(Map(l.boxes, LAMBDA b : b.roi.y1) \o Map(l.boxes, LAMBDA b : b.roi.y2))

(* ratio = width_top / max(width_next, 1e-6) < width_ratio_thr *)
ratio_below_threshold(width_top, width_next) ==
    IF width_next > 0
    THEN width_top * width_ratio_thr_den < width_ratio_thr_num * width_next
    ELSE width_top <= 0

(* variant of remove_fake_top_layer: a lone layer is dropped as a fake top *)
remove_fake_top_layer_unguarded(ls) ==
    IF Len(ls) < 1 THEN ls
    ELSE IF Len(ls) = 1 \/ ratio_below_threshold(layer_width(ls[1]), layer_width(ls[2]))
    THEN Tail(ls)
    ELSE ls

remove_fake_top_layer(ls) ==
    IF Len(ls) < 2 THEN ls
    ELSE IF ratio_below_threshold(layer_width(ls[1]), layer_width(ls[2]))
    THEN Tail(ls)
    ELSE ls

(* variant of front_box: a box at the mean is taken for a rear box *)
front_box_strict(boxes, b) ==
    (b.roi.y1 + b.roi.y2) * Len(boxes)
        > SumSeq([i \in 1..Len(boxes) |-> boxes[i].roi.y1 + boxes[i].roi.y2])

(* y_mids[i] >= y_mean, both doubled and multiplied by the number of boxes *)
front_box(boxes, b) ==
    (b.roi.y1 + b.roi.y2) * Len(boxes)
        >= SumSeq([i \in 1..Len(boxes) |-> boxes[i].roi.y1 + boxes[i].roi.y2])

front_boxes(boxes) == SelectSeq(boxes, LAMBDA b : front_box(boxes, b))

rear_filtered(layer) ==
    IF Len(layer.boxes) <= 3 THEN layer
    ELSE [index |-> layer.index, avg_y |-> layer.avg_y, boxes |-> front_boxes(layer.boxes),
          rear_removed |-> Len(layer.boxes) - Len(front_boxes(layer.boxes))]

filter_rear_boxes_if_multilayer(ls) ==
    IF Len(ls) <= 1 THEN ls ELSE [k \in 1..Len(ls) |-> rear_filtered(ls[k])]

(* variant of reindex: the layers keep the index the clusterer gave them *)
reindex_kept_index(kept) == kept

(* _process_layers: fake-top removal, then sort by avg_y and re-index from 1 *)
reindex(kept) == [i \in 1..Len(kept) |-> [kept[i] EXCEPT !.index = i]]

process_layers(ls) == reindex(sorted_by_avg_y(remove_fake_top_layer(ls)))

(* variant of get_template_config: the synthesized entries count only the boxes   *)
(* the height filter keeps                                                        *)
get_template_config_filtered(db_template, ls) ==
    IF db_template = <<>>
    THEN Map(ls, LAMBDA l : Len(filter_boxes_by_height(l.boxes)))
    ELSE db_template

(* _get_template_config: the template of the database, or one entry per layer     *)
get_template_config(db_template, ls) ==
    IF db_template = <<>> THEN Map(ls, LAMBDA l : Len(l.boxes)) ELSE db_template

----------------------------------------------------------------------------
(* Input domains *)

Box(x1, y1, x2, y2) == [roi |-> [x1 |-> x1, y1 |-> y1, x2 |-> x2, y2 |-> y2]]

(* narrow full-height, half-height, short, and wide full-height carton faces *)
BoxKinds == << Box(0, 0, 1, 4), Box(1, 0, 3, 2), Box(4, 0, 5, 1), Box(0, 0, 9, 4) >>

Det(cls, x1, y1, x2, y2) == [cls |-> cls, x1 |-> x1, y1 |-> y1, x2 |-> x2, y2 |-> y2]

(* top-class detections centred at (8,3), (8.5,3) and (3,11), and a box-class one *)
DetKinds == << Det("top", 7, 2, 9, 4), Det("top", 7, 2, 10, 4),
               Det("top", 2, 9, 4, 13), Det("box", 2, 2, 4, 4) >>

(* sequences over kinds, as non-decreasing index sequences of length 0..n *)
Ascending(k, n) ==
    UNION { { s \in [1..m -> 1..k] : \A i \in 1..(m - 1) : s[i] <= s[i + 1] } : m \in 0..n }

BoxLists == { Map(s, LAMBDA i : BoxKinds[i]) : s \in Ascending(Len(BoxKinds), MaxBoxes) }

DetLists == { Map(s, LAMBDA i : DetKinds[i]) : s \in Ascending(Len(DetKinds), MaxDets) }

(* layers below the top one: one or three wide full-height boxes *)
LowerBoxLists == { <<BoxKinds[4]>>, <<BoxKinds[4], BoxKinds[4], BoxKinds[4]>> }

TemplateCounts == {1, 3}

Templates == UNION { [1..m -> TemplateCounts] : m \in 0..(MaxLayers + 1) }

PileRois == { [x1 |-> 0, y1 |-> 0, x2 |-> 8, y2 |-> 10],
              [x1 |-> 0, y1 |-> 0, x2 |-> 10, y2 |-> 10] }

Layer(i, boxes) == [index |-> i, avg_y |-> 10 * i, boxes |-> boxes]

(* layer lists in ascending avg_y order: any box list on top, lower layers below *)
SortedLayerLists ==
    UNION { { [i \in 1..n |-> Layer(i, IF i = 1 THEN top ELSE lower[i])] :
                top \in BoxLists, lower \in [2..n -> LowerBoxLists] } : n \in 0..MaxLayers }

(* a caller of process / detect may also hand the list over bottom layer first *)
LayerLists == SortedLayerLists \cup { Reverse(ls) : ls \in SortedLayerLists }

IsSortedByAvgY(ls) == \A i \in 1..(Len(ls) - 1) : ls[i].avg_y <= ls[i + 1].avg_y

(* what the layer clusterer hands to count(): ascending avg_y, no empty layer *)
cluster_layers_output(ls) ==
    IsSortedByAvgY(ls) /\ \A i \in 1..Len(ls) : ls[i].boxes # <<>>

DepthInputs == {"None", "array"}

NoCsv == [path |-> "None", matrix |-> <<>>, image_size |-> <<>>]

(* depth_matrix_csv_path as the partial processor may hold it after its own depth *)
(* processing: none, a path without file, a matrix without a positive sample, a   *)
(* matrix with samples                                                            *)
CsvPaths ==
    { NoCsv,
      [path |-> "missing", matrix |-> <<>>, image_size |-> <<>>],
      [path |-> "csv", matrix |-> << <<0, 0, 0>>, <<0, 0, 0>> >>, image_size |-> <<10, 10>>],
      [path |-> "csv", matrix |-> << <<1000, 2000, 0>>, <<0, 1000, 2000>> >>,
       image_size |-> <<>>] }

(* what the partial processor's _process_depth_image leaves as CSV path: None     *)
(* unless the depth image file can be processed                                   *)
processed_csv_paths(depth_file) == IF depth_file = "ok" THEN CsvPaths ELSE {NoCsv}

FileStates == {"exists", "missing"}

(* the depth image file: absent, there but cv2.imread returns None, there but     *)
(* loading raises, or loaded                                                      *)
DepthFileStates == {"missing", "unreadable", "raises", "ok"}

Files ==
    [image : FileStates, model : FileStates, config : FileStates,
     depth_file : DepthFileStates]

----------------------------------------------------------------------------
(* StackProcessorFactory: handles and input validation of count()                 *)

NoHandles ==
    [raised |-> NoException, model_loaded |-> FALSE, db_loaded |-> FALSE,
     model_attempts |-> 0, db_attempts |-> 0]

(* variant of init_model: a missing model file is passed over silently *)
init_model_ignoring_missing(handles, model_file) ==
    IF handles.model_loaded \/ model_file = "missing" THEN handles
    ELSE [handles EXCEPT !.model_attempts = @ + 1, !.model_loaded = TRUE]

(* _init_model: nothing when the model is loaded; FileNotFoundError before YOLO() *)
(* is constructed when the file does not exist                                    *)
init_model(handles, model_file) ==
    IF handles.model_loaded THEN handles
    ELSE IF model_file = "missing"
    THEN [handles EXCEPT !.model_attempts = @ + 1, !.raised = "FileNotFoundError"]
    ELSE [handles EXCEPT !.model_attempts = @ + 1, !.model_loaded = TRUE]

init_pile_db(handles, config_file) ==
    IF handles.raised # NoException \/ handles.db_loaded THEN handles
    ELSE IF config_file = "missing"
    THEN [handles EXCEPT !.db_attempts = @ + 1, !.raised = "FileNotFoundError"]
    ELSE [handles EXCEPT !.db_attempts = @ + 1, !.db_loaded = TRUE]

(* __init__ as count_boxes calls it: a path that is given is loaded at once *)
construct_pile_db(handles, config_given, config_file) ==
    IF config_given THEN init_pile_db(handles, config_file) ELSE handles

construct(model_given, config_given, files) ==
    construct_pile_db(IF model_given THEN init_model(NoHandles, files.model) ELSE NoHandles,
                      config_given, files.config)

(* variant of load_depth_image: a file that cannot be read still leaves its path  *)
(* for depth processing                                                           *)
load_depth_image_keeping_path(depth_file) ==
    IF depth_file = "ok" THEN [depth_image |-> "array", path |-> "path"]
    ELSE IF depth_file = "unreadable" THEN [depth_image |-> "None", path |-> "path"]
    ELSE [depth_image |-> "None", path |-> "None"]

(* the depth part of _validate_inputs: every failure leaves depth_image and       *)
(* depth_image_path_for_processing None                                           *)
load_depth_image(depth_file) ==
    IF depth_file = "ok" THEN [depth_image |-> "array", path |-> "path"]
    ELSE [depth_image |-> "None", path |-> "None"]

Validated(handles, depth) ==
    [raised |-> handles.raised, handles |-> handles,
     depth_image |-> depth.depth_image,
     depth_image_path_for_processing |-> depth.path]

(* variant of validate_inputs_on: a depth file that cannot be loaded leaves the    *)
(* depth fields as they were                                                      *)
validate_inputs_keeping_depth(handles, depth, files) ==
    IF files.image = "missing"
    THEN Validated([handles EXCEPT !.raised = "FileNotFoundError"], depth)
    ELSE Validated(init_pile_db(init_model(handles, files.model), files.config),
                   IF files.depth_file = "ok" THEN load_depth_image(files.depth_file)
                   ELSE depth)

(* _validate_inputs on a factory whose depth fields hold depth: a missing image   *)
(* raises before the fields are written; otherwise every branch writes them, then *)
(* the handles not yet loaded are loaded                                          *)
validate_inputs_on(handles, depth, files) ==
    IF files.image = "missing"
    THEN Validated([handles EXCEPT !.raised = "FileNotFoundError"], depth)
    ELSE Validated(init_pile_db(init_model(handles, files.model), files.config),
                   load_depth_image(files.depth_file))

(* _validate_inputs on a factory just constructed: the depth fields are None *)
validate_inputs(handles, files) ==
    validate_inputs_on(handles, [depth_image |-> "None", path |-> "None"], files)

(* construction (for count_boxes) followed by _validate_inputs *)
validated_entry(handles, files) ==
    IF handles.raised # NoException
    THEN Validated(handles, [depth_image |-> "None", path |-> "None"])
    ELSE validate_inputs(handles, files)

count_entry(model_given, config_given, files) ==
    validated_entry(construct(model_given, config_given, files), files)

NoEnv ==
    [files |-> [image |-> "unset", model |-> "unset", config |-> "unset",
                depth_file |-> "unset"],
     handles |-> NoHandles, depth_image_path_for_processing |-> "None",
     predict_calls |-> 0, detections |-> FALSE, prepared |-> FALSE,
     template_layers |-> <<>>, processing_image_path |-> "unset"]

EnvOf(files, v, predict_calls, detections, prepared, template, image) ==
    [files |-> files, handles |-> v.handles,
     depth_image_path_for_processing |-> v.depth_image_path_for_processing,
     predict_calls |-> predict_calls, detections |-> detections, prepared |-> prepared,
     template_layers |-> template, processing_image_path |-> image]

(* _prepare_visualization_dir: a directory when visualization is on, else None *)
prepare_visualization_dir(visualization) == IF visualization THEN "output_dir" ELSE "None"

(* what depth_calculator.rotate_image can do: write (or find) the rotated file,   *)
(* or raise                                                                       *)
RotationOutcomes == {"rotated", "raises"}

(* _rotate_and_save_image: None unless debug is on and there is an output dir *)
rotate_and_save_image(debug, output_dir, rotation) ==
    IF ~debug \/ output_dir = "None" THEN "None"
    ELSE IF rotation = "rotated" THEN "rotated_image_path"
    ELSE "None"

(* count(): rotated_image_path if rotated_image_path else image_path *)
processing_image_path(debug, visualization, rotation) ==
    IF rotate_and_save_image(debug, prepare_visualization_dir(visualization), rotation) = "None"
    THEN "image_path"
    ELSE rotate_and_save_image(debug, prepare_visualization_dir(visualization), rotation)

(* the rotation is attempted only where _rotate_and_save_image gets that far *)
rotations(debug, visualization) ==
    IF debug /\ visualization THEN RotationOutcomes ELSE {"raises"}

(* count() from validation on, for a pile whose clustering gives ls: the raise of *)
(* _validate_inputs, 0 for no layers, else process() on the processed layers      *)
count_outcome(v, ls, template, roi, dets, csv_path, debug) ==
    IF v.raised # NoException
    THEN [layers |-> ls, detection_result |-> BlankDetection(<<>>, <<>>), invoked |-> <<>>,
          processing_result |-> NoResult,
          total_count |-> [raised |-> v.raised, returned |-> <<>>, via |-> "validate"]]
    ELSE IF ls = <<>>
    THEN [layers |-> ls, detection_result |-> BlankDetection(<<>>, <<>>), invoked |-> <<>>,
          processing_result |-> NoResult,
          total_count |-> [raised |-> NoException, returned |-> <<0>>, via |-> "no_layers"]]
    ELSE factory_process(process_layers(ls), get_template_config(template, process_layers(ls)),
                         roi, dets, v.depth_image, csv_path, debug)

(* the factory between calls: what the constructor loaded, what it holds now, the *)
(* files and the depth CSV of the last call, and the depth image before that call *)
FactoryEnv(files, v, constructed, csv_path, previous_depth_image) ==
    [files |-> files, handles |-> v.handles,
     depth_image_path_for_processing |-> v.depth_image_path_for_processing,
     predict_calls |-> IF v.raised = NoException THEN 1 ELSE 0,
     detections |-> v.raised = NoException, prepared |-> v.raised = NoException,
     template_layers |-> <<>>, processing_image_path |-> "image_path",
     constructed |-> constructed, csv_path |-> csv_path,
     previous_depth_image |-> previous_depth_image]

(* variant of count_stage: an empty clustering result is handed on *)
count_stage_without_layer_check(detections, prepared, ls) ==
    IF ~detections THEN "no_detections"
    ELSE IF ~prepared THEN "no_scene"
    ELSE "process"

(* count(): the three early returns before _process_layers *)
count_stage(detections, prepared, ls) ==
    IF ~detections THEN "no_detections"
    ELSE IF ~prepared THEN "no_scene"
    ELSE IF ls = <<>> THEN "no_layers"
    ELSE "process"

----------------------------------------------------------------------------
(* Inputs of the depth sampling *)

NoSample ==
    [impl |-> "none", norm_x |-> [num |-> 0, den |-> 1], norm_y |-> [num |-> 0, den |-> 1],
     result |-> ExtractResult(NoException, FALSE, 0, 1),
     caught |-> NoException, depth_values |-> <<>>]

DepthMatrices ==
    [1..2 -> [1..3 -> {0, 1000}]]
        \cup { << <<1000, 1000, 1000>>, <<1000, 1000, 3000>> >>,
               << <<1000, 2000, 0>>, <<0, 1000, 2000>> >> }

(* normalised coordinates -1/4, 0, 2/4, 4/4, 5/4 *)
NormCoords == { [num |-> n, den |-> 4] : n \in {-1, 0, 2, 4, 5} }

DepthLayerLists ==
    { <<Layer(1, top), Layer(2, <<BoxKinds[4]>>)>> :
          top \in { b \in BoxLists : Len(b) <= 2 } }

(* a pile ROI of zero width, of zero height, of neither extent *)
DegenerateRois ==
    { [x1 |-> 0, y1 |-> 0, x2 |-> 0, y2 |-> 10],
      [x1 |-> 0, y1 |-> 0, x2 |-> 8, y2 |-> 0],
      [x1 |-> 4, y1 |-> 2, x2 |-> 4, y2 |-> 2] }

----------------------------------------------------------------------------
(* Layer clusterer (cluster_layers_with_box_roi).  A vertical center is kept      *)
(* doubled, y1 + y2; a layer's avg_y, the mean of its members' centers, is kept   *)
(* multiplied by 2 * AvgScale, which is a whole number for every layer size.      *)

gap_ratio_num == 6
gap_ratio_den == 10

RECURSIVE Factorial(_)
Factorial(n) == IF n <= 1 THEN 1 ELSE n * Factorial(n - 1)

(* a multiple of every layer size *)
AvgScale == Factorial(MaxPileBoxes)

y_center(box) == box.roi.y1 + box.roi.y2

(* sorted(boxes, key=vertical center): stable insertion *)
RECURSIVE InsertByCenter(_, _)
InsertByCenter(s, box) ==
    IF s = <<>> THEN <<box>>
    ELSE IF y_center(box) < y_center(Head(s)) THEN <<box>> \o s
    ELSE <<Head(s)>> \o InsertByCenter(Tail(s), box)

RECURSIVE sorted_by_center(_)
sorted_by_center(boxes) ==
    IF boxes = <<>> THEN <<>>
    ELSE InsertByCenter(sorted_by_center(SubSeq(boxes, 1, Len(boxes) - 1)), boxes[Len(boxes)])

sum_heights(boxes) == SumSeq(Map(boxes, get_box_height))

(* variant of exceeds_gap: a gap of exactly gap_ratio * average height splits *)
exceeds_gap_inclusive(current, box) ==
    (y_center(box) - y_center(current[Len(current)])) * gap_ratio_den * Len(current)
        >= 2 * gap_ratio_num * sum_heights(current)

(* gap to the previous center > gap_ratio * (average box height of the layer  *)
(* being built), with the centers doubled                                     *)
exceeds_gap(current, box) ==
    (y_center(box) - y_center(current[Len(current)])) * gap_ratio_den * Len(current)
        > 2 * gap_ratio_num * sum_heights(current)

(* the walk over the sorted boxes: done holds the closed groups, current the one  *)
(* being built                                                                    *)
RECURSIVE walk_sorted(_, _, _)
walk_sorted(rest, done, current) ==
    IF rest = <<>> THEN Append(done, current)
    ELSE IF exceeds_gap(current, Head(rest))
    THEN walk_sorted(Tail(rest), Append(done, current), <<Head(rest)>>)
    ELSE walk_sorted(Tail(rest), done, Append(current, Head(rest)))

group_boxes(sorted_boxes) ==
    IF sorted_boxes = <<>> THEN <<>>
    ELSE walk_sorted(Tail(sorted_boxes), <<>>, <<Head(sorted_boxes)>>)

scaled_avg_y(group) == SumSeq(Map(group, y_center)) * (AvgScale \div Len(group))

layers_of_groups(groups) ==
    [i \in 1..Len(groups) |->
        [index |-> i, avg_y |-> scaled_avg_y(groups[i]), boxes |-> groups[i]]]

cluster_layers_with_box_roi(boxes) == layers_of_groups(group_boxes(sorted_by_center(boxes)))

(* carton faces at several heights: a row around y = 2..3, one exactly 0.6 box    *)
(* heights below the first, and a row around y = 12..13                           *)
PileBoxKinds ==
    << Box(0, 0, 2, 5), Box(2, 1, 4, 5), Box(4, 3, 6, 8), Box(0, 10, 2, 14),
       Box(2, 11, 4, 15), Box(4, 2, 6, 4) >>

PileBoxLists ==
    UNION { [1..m -> { PileBoxKinds[k] : k \in 1..Len(PileBoxKinds) }] : m \in 0..MaxPileBoxes }

(* ROIs for _calc_coverage: narrower than a box, as wide as a pile, without      *)
(* width, and with x2 left of x1                                                  *)
CoverageRois ==
    PileRois \cup DegenerateRois
        \cup { [x1 |-> 0, y1 |-> 0, x2 |-> 2, y2 |-> 10],
               [x1 |-> 2, y1 |-> 0, x2 |-> 6, y2 |-> 10],
               [x1 |-> 8, y1 |-> 0, x2 |-> 0, y2 |-> 10] }

NoCoverage == [applied |-> FALSE, raised |-> NoException, value |-> [num |-> 0, den |-> 1]]

----------------------------------------------------------------------------
(* State machine *)

BlankCall ==
    /\ op = "init"
    /\ calls = 0
    /\ detection_result = BlankDetection(<<>>, <<>>)
    /\ invoked = <<>>
    /\ processing_result = NoResult
    /\ prev_result = NoResult
    /\ total_count = [raised |-> NoException, returned |-> <<>>, via |-> "none"]
    /\ env = NoEnv
    /\ depth_sample = NoSample
    /\ coverage_result = NoCoverage

Blank ==
    /\ BlankCall
    /\ invocations = <<>>

Init ==
    /\ layers \in LayerLists
    /\ layers0 = layers
    /\ template_layers \in Templates
    /\ pile_roi \in PileRois
    \* detections are varied where they are read: for one-layer piles
    /\ yolo_detections \in (IF Len(layers) = 1 THEN DetLists ELSE {<<>>})
    /\ depth_image = "None"
    /\ enable_debug = TRUE
    /\ depth_csv = <<>>
    /\ prepared_boxes = <<>>
    /\ enable_visualization = FALSE
    /\ height_filter_ratio = DefaultRatio
    /\ Blank

Inputs ==
    <<layers0, template_layers, pile_roi, yolo_detections, enable_debug, depth_csv,
      prepared_boxes, enable_visualization, height_filter_ratio>>

(* detector.detect(layers, template_layers, pile_roi) called on its own; it has   *)
(* no detections parameter                                                        *)
DetectCall ==
    /\ op = "init"
    /\ yolo_detections = <<>>
    /\ \E d \in {detect(layers, template_layers, pile_roi, depth_image)} :
          /\ layers' = d.layers
          /\ detection_result' =
                 [status |-> d.result.status, full |-> d.result.full,
                  reason |-> d.result.reason, top_layer |-> d.result.top_layer,
                  pile_roi |-> <<>>, yolo_detections |-> <<>>]
          /\ total_count' = [raised |-> d.raised, returned |-> <<>>, via |-> "detect"]
    /\ op' = "detect"
    /\ UNCHANGED <<Inputs, depth_image, calls, invoked, processing_result, prev_result,
                   env, depth_sample, coverage_result,
                   invocations>>

(* a strategy processor called on its own; the caller may or may not put the pile *)
(* ROI into detection_result, and passes the depth the factory holds; only the    *)
(* partial processor reads depth_matrix_csv_path                                  *)
DirectCall(name, with_roi) ==
    /\ op = "init"
    /\ depth_csv = <<>>
    \* only the single-layer processor reads the raw detections
    /\ name # "single" => yolo_detections = <<>>
    /\ \E csv_path \in (IF name = "partial" THEN CsvPaths ELSE {NoCsv}) :
       \E r \in {run_processor(name, layers, template_layers,
                                BlankDetection(IF with_roi THEN <<pile_roi>> ELSE <<>>,
                                               yolo_detections),
                                depth_image, csv_path, enable_debug)} :
          /\ detection_result' = BlankDetection(IF with_roi THEN <<pile_roi>> ELSE <<>>,
                                                yolo_detections)
          /\ processing_result' = r
          /\ total_count' = [raised |-> r.raised, returned |-> r.total, via |-> name]
    /\ invoked' = <<name>>
    /\ op' = name
    /\ UNCHANGED <<layers, Inputs, depth_image, calls, prev_result, env, depth_sample, coverage_result,
                   invocations>>

FullCall == DirectCall("full", TRUE)

PartialCall == \E with_roi \in BOOLEAN : DirectCall("partial", with_roi)

SingleCall == \E with_roi \in BOOLEAN : DirectCall("single", with_roi)

(* factory.process(layers, template_layers, pile_roi, yolo_detections), possibly  *)
(* again on the same objects                                                      *)
Process ==
    /\ op \in {"init", "process"}
    /\ depth_csv = <<>>
    /\ calls < MaxCalls
    /\ \E p \in {factory_process(layers, template_layers, pile_roi, yolo_detections,
                                  depth_image, NoCsv, enable_debug)} :
          /\ layers' = p.layers
          /\ detection_result' = p.detection_result
          /\ invoked' = p.invoked
          /\ processing_result' = p.processing_result
          /\ total_count' = p.total_count
    /\ prev_result' = processing_result
    /\ calls' = calls + 1
    /\ op' = "process"
    /\ UNCHANGED <<Inputs, depth_image, env, depth_sample, coverage_result,
                   invocations>>

(* count_boxes() / factory.count() on a path that does not exist: the constructor *)
(* or _validate_inputs raises, nothing of the pile is read                        *)
CountRaises ==
    /\ op = "init"
    /\ layers = <<>>
    /\ depth_csv = <<>>
    /\ \E model_given \in BOOLEAN, config_given \in BOOLEAN, files \in Files :
       \E v \in {count_entry(model_given, config_given, files)} :
          /\ v.raised # NoException
          /\ depth_image' = v.depth_image
          /\ env' = EnvOf(files, v, 0, FALSE, FALSE, <<>>, "unset")
          /\ total_count' = [raised |-> v.raised, returned |-> <<>>, via |-> "validate"]
    /\ op' = "count"
    /\ UNCHANGED <<layers, Inputs, calls, detection_result, invoked, processing_result,
                   prev_result, depth_sample, coverage_result,
                   invocations>>

(* factory.count() returning 0 before the classifier: no detections, no scene,    *)
(* or no layers                                                                   *)
CountEmpty ==
    /\ op = "init"
    /\ layers = <<>>
    /\ depth_csv = <<>>
    /\ \E model_given \in BOOLEAN, config_given \in BOOLEAN, files \in Files,
          detections \in BOOLEAN, prepared \in BOOLEAN,
          rotation \in rotations(enable_debug, enable_visualization) :
       \E v \in {count_entry(model_given, config_given, files)} :
          /\ v.raised = NoException
          /\ count_stage(detections, prepared, layers) # "process"
          /\ depth_image' = v.depth_image
          /\ env' = EnvOf(files, v, 1, detections, prepared, <<>>,
                          processing_image_path(enable_debug, enable_visualization,
                                                rotation))
          /\ total_count' = [raised |-> NoException, returned |-> <<0>>,
                             via |-> count_stage(detections, prepared, layers)]
    /\ op' = "count"
    /\ UNCHANGED <<layers, Inputs, calls, detection_result, invoked, processing_result,
                   prev_result, depth_sample, coverage_result,
                   invocations>>

(* factory.count() from the clustered layers on: _process_layers, template        *)
(* lookup (template_layers is what the database returns), then process; the       *)
(* partial processor gets the image path and may produce a depth matrix CSV from  *)
(* the depth image file, which it finds under the same derived name               *)
Count ==
    /\ op = "init"
    /\ depth_csv = <<>>
    /\ count_stage(TRUE, TRUE, layers) = "process"
    /\ cluster_layers_output(layers)
    \* the depth image is varied where it is read: the single-layer processor,
    \* which alone reads the raw detections, never reads its depth_image
    /\ \E depth_file \in (IF yolo_detections = <<>> THEN DepthFileStates ELSE {"missing"}) :
       \E csv_path \in processed_csv_paths(depth_file) :
       \E rotation \in rotations(enable_debug, enable_visualization) :
       \E files \in {[image |-> "exists", model |-> "exists", config |-> "exists",
                      depth_file |-> depth_file]} :
       \E v \in {count_entry(FALSE, FALSE, files)} :
       \E processed \in {process_layers(layers)} :
       \E p \in {factory_process(processed,
                                  get_template_config(template_layers, processed),
                                  pile_roi, yolo_detections, v.depth_image, csv_path,
                                  enable_debug)} :
          /\ v.raised = NoException
          /\ depth_image' = v.depth_image
          /\ env' = EnvOf(files, v, 1, TRUE, TRUE,
                          get_template_config(template_layers, processed),
                          processing_image_path(enable_debug, enable_visualization,
                                                rotation))
          /\ layers' = p.layers
          /\ detection_result' = p.detection_result
          /\ invoked' = p.invoked
          /\ processing_result' = p.processing_result
          /\ total_count' = [p.total_count EXCEPT !.via = "count"]
    /\ op' = "count"
    /\ UNCHANGED <<Inputs, calls, prev_result, depth_sample, coverage_result,
                   invocations>>

Next ==
    \/ DetectCall
    \/ FullCall
    \/ PartialCall
    \/ SingleCall
    \/ Process
    \/ CountRaises
    \/ CountEmpty
    \/ Count

Spec == Init /\ [][Next]_vars

(* The same operations on a pile ROI without extent, with or without a depth      *)
(* image held by the factory and with or without debug output                     *)
RoiInit ==
    /\ layers \in LayerLists
    /\ layers0 = layers
    /\ template_layers \in Templates
    /\ pile_roi \in DegenerateRois
    /\ yolo_detections \in (IF Len(layers) = 1 THEN {<<>>, <<DetKinds[1]>>} ELSE {<<>>})
    /\ depth_image \in DepthInputs
    /\ enable_debug \in BOOLEAN
    /\ depth_csv = <<>>
    /\ prepared_boxes = <<>>
    /\ enable_visualization \in BOOLEAN
    /\ height_filter_ratio = DefaultRatio
    /\ Blank

RoiSpec == RoiInit /\ [][Next]_vars

(* DepthProcessor.extract_depth_at_position of depth/depth_processor.py *)
Extract ==
    /\ op = "init"
    /\ \E norm_x \in NormCoords, norm_y \in NormCoords :
          depth_sample' =
              [impl |-> "depth_processor", norm_x |-> norm_x, norm_y |-> norm_y,
               result |-> extract_depth_at_position(depth_csv, norm_x, norm_y),
               caught |-> NoException, depth_values |-> <<>>]
    /\ op' = "extract"
    /\ UNCHANGED <<layers, Inputs, depth_image, calls, detection_result, invoked,
                   processing_result, prev_result, total_count, env, coverage_result,
                   invocations>>

(* DepthProcessor.extract_depth_at_position of depth/processor.py *)
ProcessorExtract ==
    /\ op = "init"
    /\ \E norm_x \in NormCoords, norm_y \in NormCoords :
          depth_sample' =
              [impl |-> "processor", norm_x |-> norm_x, norm_y |-> norm_y,
               result |-> processor_extract_depth_at_position(depth_csv, norm_x, norm_y),
               caught |-> NoException, depth_values |-> <<>>]
    /\ op' = "extract"
    /\ UNCHANGED <<layers, Inputs, depth_image, calls, detection_result, invoked,
                   processing_result, prev_result, total_count, env, coverage_result,
                   invocations>>

(* the partial processor called with the CSV of the depth matrix *)
PartialCsvCall ==
    /\ op = "init"
    /\ \E image_size \in {<<>>, <<10, 10>>} :
       \E csv_path \in {[path |-> "csv", matrix |-> depth_csv,
                         image_size |-> image_size]} :
       \E r \in {partial_process(layers, template_layers,
                                 BlankDetection(<<pile_roi>>, <<>>),
                                 depth_image, csv_path, enable_debug)},
          c \in {calculate_top_layer_count_with_depth(layers[1].boxes, pile_roi,
                                                      depth_image, csv_path,
                                                      enable_debug)} :
          /\ detection_result' = BlankDetection(<<pile_roi>>, <<>>)
          /\ processing_result' = r
          /\ total_count' = [raised |-> r.raised, returned |-> r.total, via |-> "partial"]
          /\ depth_sample' = [NoSample EXCEPT !.impl = "partial", !.caught = c.caught,
                                              !.depth_values = c.depth_values]
    /\ invoked' = <<"partial">>
    /\ op' = "partial"
    /\ UNCHANGED <<layers, Inputs, depth_image, calls, prev_result, env, coverage_result,
                   invocations>>

DepthInit ==
    /\ layers \in DepthLayerLists
    /\ layers0 = layers
    /\ template_layers = <<3, 3>>
    /\ pile_roi \in PileRois
    /\ yolo_detections = <<>>
    /\ depth_image \in DepthInputs
    /\ enable_debug = TRUE
    /\ depth_csv \in DepthMatrices
    /\ prepared_boxes = <<>>
    /\ enable_visualization = FALSE
    /\ height_filter_ratio = DefaultRatio
    /\ Blank

DepthNext ==
    \/ Extract
    \/ ProcessorExtract
    \/ PartialCsvCall

DepthSpec == DepthInit /\ [][DepthNext]_vars

(* detector._calc_coverage(boxes, pile_roi) called on the boxes of the top layer *)
CalcCoverage ==
    /\ op = "init"
    /\ coverage_result' =
           IF calc_coverage_raises(layers[1].boxes, pile_roi)
           THEN [applied |-> TRUE, raised |-> "ZeroDivisionError",
                 value |-> [num |-> 0, den |-> 1]]
           ELSE [applied |-> TRUE, raised |-> NoException,
                 value |-> calc_coverage(layers[1].boxes, pile_roi)]
    /\ op' = "calc_coverage"
    /\ UNCHANGED <<layers, Inputs, depth_image, calls, detection_result, invoked,
                   processing_result, prev_result, total_count, env, depth_sample,
                   invocations>>

CoverageInit ==
    /\ layers \in { <<Layer(1, top)>> : top \in BoxLists \ {<<>>} }
    /\ layers0 = layers
    /\ template_layers = <<>>
    /\ pile_roi \in CoverageRois
    /\ yolo_detections = <<>>
    /\ depth_image = "None"
    /\ enable_debug = TRUE
    /\ depth_csv = <<>>
    /\ prepared_boxes = <<>>
    /\ enable_visualization = FALSE
    /\ height_filter_ratio = DefaultRatio
    /\ Blank

CoverageSpec == CoverageInit /\ [][CalcCoverage]_vars

(* count() step 3, _cluster_layers: the clusterer on the boxes of the pile; an    *)
(* empty result ends the count with 0                                             *)
ClusterLayers ==
    /\ op = "init"
    /\ layers' = cluster_layers_with_box_roi(prepared_boxes)
    /\ total_count' =
           IF count_stage(TRUE, TRUE, cluster_layers_with_box_roi(prepared_boxes)) = "process"
           THEN total_count
           ELSE [raised |-> NoException, returned |-> <<0>>, via |-> "no_layers"]
    /\ op' = "cluster_layers"
    /\ UNCHANGED <<Inputs, depth_image, calls, detection_result, invoked, processing_result,
                   prev_result, env, depth_sample, coverage_result, invocations>>

(* count() step 4, _process_layers, on the clusterer's layers *)
ProcessLayers ==
    /\ op = "cluster_layers"
    /\ layers # <<>>
    /\ layers' = process_layers(layers)
    /\ op' = "process_layers"
    /\ UNCHANGED <<Inputs, depth_image, calls, detection_result, invoked, processing_result,
                   prev_result, total_count, env, depth_sample, coverage_result,
                   invocations>>

ClusterInit ==
    /\ layers = <<>>
    /\ layers0 = <<>>
    /\ template_layers = <<>>
    /\ pile_roi \in PileRois
    /\ yolo_detections = <<>>
    /\ depth_image = "None"
    /\ enable_debug = TRUE
    /\ depth_csv = <<>>
    /\ prepared_boxes \in PileBoxLists
    /\ enable_visualization = FALSE
    /\ height_filter_ratio = DefaultRatio
    /\ Blank

(* filter_rear_boxes_if_multilayer on the clusterer's layers *)
FilterRearBoxes ==
    /\ op = "cluster_layers"
    /\ layers' = filter_rear_boxes_if_multilayer(layers)
    /\ op' = "filter_rear_boxes"
    /\ UNCHANGED <<Inputs, depth_image, calls, detection_result, invoked, processing_result,
                   prev_result, total_count, env, depth_sample, coverage_result,
                   invocations>>

ClusterNext ==
    \/ ClusterLayers
    \/ ProcessLayers
    \/ FilterRearBoxes

ClusterSpec == ClusterInit /\ [][ClusterNext]_vars

(* _filter_boxes_by_height of detectors built with other ratios, applied to a     *)
(* layer's boxes and then to its own result.  Heights are abs(y2 - y1); a box may *)
(* have height 0.                                                                 *)
RatioDen == 2

HeightFilterRatios == { [num |-> n, den |-> RatioDen] : n \in -1..3 }

FlatBoxKinds == BoxKinds \o << Box(5, 2, 7, 2) >>

FlatBoxLists ==
    { Map(s, LAMBDA i : FlatBoxKinds[i]) : s \in Ascending(Len(FlatBoxKinds), MaxBoxes) }

FilterByHeight ==
    /\ op = "init"
    /\ layers' = <<[layers[1] EXCEPT !.boxes =
                       filter_boxes_by_height_ratio(layers[1].boxes, height_filter_ratio)]>>
    /\ op' = "filter_boxes_by_height"
    /\ UNCHANGED <<Inputs, depth_image, calls, detection_result, invoked, processing_result,
                   prev_result, total_count, env, depth_sample, coverage_result,
                   invocations>>

FilterByHeightAgain ==
    /\ op = "filter_boxes_by_height"
    /\ layers' = <<[layers[1] EXCEPT !.boxes =
                       filter_boxes_by_height_ratio(layers[1].boxes, height_filter_ratio)]>>
    /\ op' = "filter_boxes_by_height_again"
    /\ UNCHANGED <<Inputs, depth_image, calls, detection_result, invoked, processing_result,
                   prev_result, total_count, env, depth_sample, coverage_result,
                   invocations>>

HeightInit ==
    /\ \E boxes \in FlatBoxLists : layers = <<Layer(1, boxes)>>
    /\ layers0 = layers
    /\ template_layers = <<>>
    /\ pile_roi \in PileRois
    /\ yolo_detections = <<>>
    /\ depth_image = "None"
    /\ enable_debug = TRUE
    /\ depth_csv = <<>>
    /\ prepared_boxes = <<>>
    /\ enable_visualization = FALSE
    /\ height_filter_ratio \in HeightFilterRatios
    /\ Blank

HeightNext ==
    \/ FilterByHeight
    \/ FilterByHeightAgain

HeightSpec == HeightInit /\ [][HeightNext]_vars

(* Two or more count() invocations in progress on one factory.  self.depth_image  *)
(* is a field of the factory; an invocation is at "start", "validated" (after     *)
(* _validate_inputs), "classified" (after detector.detect in process) or "done"   *)
(* (after the strategy processor).  A depth image is named by the path it was     *)
(* read from.                                                                     *)
DepthPaths == {"a_d.png", "b_d.png"}

imread(depth_image_path, depth_file) ==
    IF load_depth_image(depth_file).depth_image = "None" THEN "None" ELSE depth_image_path

Invocation(depth_image_path, depth_file) ==
    [pc |-> "start", depth_image_path |-> depth_image_path, depth_file |-> depth_file,
     loaded |-> "None", classifier_read |-> "None", strategy_read |-> "None"]

(* _validate_inputs of invocation i writes the field *)
ValidateInputs(i) ==
    /\ invocations[i].pc = "start"
    /\ \E img \in {imread(invocations[i].depth_image_path, invocations[i].depth_file)} :
          /\ depth_image' = img
          /\ invocations' = [invocations EXCEPT ![i].pc = "validated", ![i].loaded = img]
    /\ UNCHANGED <<layers, Inputs, op, calls, detection_result, invoked, processing_result,
                   prev_result, total_count, env, depth_sample, coverage_result>>

(* process() of invocation i: detector.detect(..., depth_image=self.depth_image) *)
ClassifierReads(i) ==
    /\ invocations[i].pc = "validated"
    /\ invocations' = [invocations EXCEPT ![i].pc = "classified",
                                          ![i].classifier_read = depth_image]
    /\ UNCHANGED <<layers, Inputs, depth_image, op, calls, detection_result, invoked,
                   processing_result, prev_result, total_count, env, depth_sample,
                   coverage_result>>

(* process() of invocation i: processor.process(..., depth_image=self.depth_image) *)
StrategyReads(i) ==
    /\ invocations[i].pc = "classified"
    /\ invocations' = [invocations EXCEPT ![i].pc = "done",
                                          ![i].strategy_read = depth_image]
    /\ UNCHANGED <<layers, Inputs, depth_image, op, calls, detection_result, invoked,
                   processing_result, prev_result, total_count, env, depth_sample,
                   coverage_result>>

ConcurrentInit ==
    /\ layers = <<>>
    /\ layers0 = <<>>
    /\ template_layers = <<>>
    /\ pile_roi \in PileRois
    /\ yolo_detections = <<>>
    /\ depth_image = "None"
    /\ enable_debug = TRUE
    /\ depth_csv = <<>>
    /\ prepared_boxes = <<>>
    /\ enable_visualization = FALSE
    /\ height_filter_ratio = DefaultRatio
    /\ BlankCall
    /\ \E files \in [DepthPaths -> DepthFileStates] :
          \E paths \in [1..MaxInvocations -> DepthPaths] :
              invocations = [i \in 1..MaxInvocations |-> Invocation(paths[i], files[paths[i]])]

ConcurrentNext ==
    \E i \in 1..MaxInvocations :
        \/ ValidateInputs(i)
        \/ ClassifierReads(i)
        \/ StrategyReads(i)

ConcurrentSpec == ConcurrentInit /\ [][ConcurrentNext]_vars

(* count() called again and again on one factory.  Model and configuration files  *)
(* stay as they were at construction; every call names its own image and depth    *)
(* file, and the image decides the layers that clustering yields.                 *)
(* no layers; one layer; a top layer that loses a box to the height filter; a     *)
(* full top layer                                                                 *)
CountedLayerLists ==
    { <<>>,
      << Layer(1, <<BoxKinds[1], BoxKinds[2]>>) >>,
      << Layer(1, <<BoxKinds[1], BoxKinds[2], BoxKinds[3]>>),
         Layer(2, <<BoxKinds[4], BoxKinds[4], BoxKinds[4]>>) >>,
      << Layer(1, <<BoxKinds[4], BoxKinds[4], BoxKinds[4]>>),
         Layer(2, <<BoxKinds[4], BoxKinds[4], BoxKinds[4]>>) >> }

CountedTemplates == { <<>>, <<3, 3>> }

CountOnFactory ==
    /\ op \in {"constructed", "count"}
    /\ calls < MaxCounts
    /\ \E ls \in CountedLayerLists, template \in CountedTemplates, image \in FileStates,
          depth_file \in DepthFileStates :
       \E csv_path \in processed_csv_paths(depth_file) :
       \E files \in {[image |-> image, model |-> env.files.model,
                      config |-> env.files.config, depth_file |-> depth_file]} :
       \E v \in {validate_inputs_on([env.handles EXCEPT !.raised = NoException],
                                    [depth_image |-> depth_image,
                                     path |-> env.depth_image_path_for_processing],
                                    files)} :
       \E r \in {count_outcome(v, ls, template, pile_roi, yolo_detections, csv_path,
                               enable_debug)} :
          /\ layers0' = ls
          /\ template_layers' = template
          /\ depth_image' = v.depth_image
          /\ env' = FactoryEnv(files, v, env.constructed, csv_path, depth_image)
          /\ layers' = r.layers
          /\ detection_result' = r.detection_result
          /\ invoked' = r.invoked
          /\ processing_result' = r.processing_result
          /\ total_count' = r.total_count
    /\ prev_result' = processing_result
    /\ calls' = calls + 1
    /\ op' = "count"
    /\ UNCHANGED <<pile_roi, yolo_detections, enable_debug, depth_csv, prepared_boxes,
                   enable_visualization, height_filter_ratio, depth_sample, coverage_result,
                   invocations>>

FactoryInit ==
    /\ layers = <<>>
    /\ layers0 = <<>>
    /\ template_layers = <<>>
    /\ pile_roi \in PileRois
    /\ yolo_detections = <<>>
    /\ depth_image = "None"
    /\ enable_debug \in BOOLEAN
    /\ depth_csv = <<>>
    /\ prepared_boxes = <<>>
    /\ enable_visualization = FALSE
    /\ height_filter_ratio = DefaultRatio
    /\ op = "constructed"
    /\ calls = 0
    /\ detection_result = BlankDetection(<<>>, <<>>)
    /\ invoked = <<>>
    /\ processing_result = NoResult
    /\ prev_result = NoResult
    /\ total_count = [raised |-> NoException, returned |-> <<>>, via |-> "none"]
    /\ depth_sample = NoSample
    /\ coverage_result = NoCoverage
    /\ invocations = <<>>
    /\ \E model_given \in BOOLEAN, config_given \in BOOLEAN, model \in FileStates,
          config \in FileStates :
       \E files \in {[image |-> "unset", model |-> model, config |-> config,
                      depth_file |-> "unset"]} :
       \E handles \in {construct(model_given, config_given, files)} :
          /\ handles.raised = NoException
          /\ env = FactoryEnv(files,
                              Validated(handles, [depth_image |-> "None", path |-> "None"]),
                              handles, NoCsv, "None")

FactorySpec == FactoryInit /\ [][CountOnFactory]_vars

----------------------------------------------------------------------------
(* Vocabulary of the properties, stated from the inputs and independently of the  *)
(* operators above                                                                *)

RECURSIVE SumTo(_, _)
SumTo(t, k) == IF k <= 0 THEN 0 ELSE t[k] + SumTo(t, k - 1)

SumAll(t) == SumTo(t, Len(t))

HeightOf(b) == IF b.roi.y2 >= b.roi.y1 THEN b.roi.y2 - b.roi.y1 ELSE b.roi.y1 - b.roi.y2

(* boxes at least half as high as the highest box of the list *)
FilteredCount(boxes) ==
    Cardinality({ i \in 1..Len(boxes) :
                    \A j \in 1..Len(boxes) : 2 * HeightOf(boxes[i]) >= HeightOf(boxes[j]) })

IsHeightFiltered(boxes) == FilteredCount(boxes) = Len(boxes)

(* the layer of smallest avg_y of a non-empty list *)
TopLayerOf(ls) ==
    ls[CHOOSE i \in 1..Len(ls) : \A j \in 1..Len(ls) : ls[i].avg_y <= ls[j].avg_y]

TemplateTop == IF Len(template_layers) = 0 THEN 0 ELSE template_layers[1]

ReturnedTotal(n) ==
    processing_result.raised = NoException /\ processing_result.total = <<n>>

(* top-class detections whose center lies inside the pile ROI (coordinates doubled) *)
TopsInsideRoi ==
    { i \in 1..Len(yolo_detections) :
        /\ yolo_detections[i].cls = "top"
        /\ 2 * pile_roi.x1 <= yolo_detections[i].x1 + yolo_detections[i].x2
        /\ yolo_detections[i].x1 + yolo_detections[i].x2 <= 2 * pile_roi.x2
        /\ 2 * pile_roi.y1 <= yolo_detections[i].y1 + yolo_detections[i].y2
        /\ yolo_detections[i].y1 + yolo_detections[i].y2 <= 2 * pile_roi.y2 }

(* the processor ran on the caller's template and on a top layer that is height-  *)
(* filtered: by the classifier inside process, or already as handed in            *)
RanOnFilteredTop(name) ==
    /\ invoked = <<name>>
    /\ \/ op = "process"
       \/ op = name /\ layers0 # <<>> /\ IsHeightFiltered(layers0[1].boxes)

----------------------------------------------------------------------------
(* C1: TemplateBasedFullProcessor.process returns the sum of all template entries *)
(* when n_detected = n_template (full_match) or n_detected > n_template           *)
(* (exceed_template), and the sum of the first n_detected entries when            *)
(* n_detected < n_template (partial_visible).                                     *)
C1_FullTotal ==
    (invoked = <<"full">> /\ op \in {"full", "process"}) =>
        /\ Len(layers) = Len(template_layers) =>
               ReturnedTotal(SumAll(template_layers))
               /\ processing_result.strategy = "full_match"
        /\ Len(layers) < Len(template_layers) =>
               ReturnedTotal(SumTo(template_layers, Len(layers)))
               /\ processing_result.strategy = "partial_visible"
        /\ Len(layers) > Len(template_layers) =>
               ReturnedTotal(SumAll(template_layers))
               /\ processing_result.strategy = "exceed_template"

(* two layers under template [3,3,1]: partial_visible, total 3 + 3 = 6 *)
C1_Witness ==
    /\ op = "process"
    /\ invoked = <<"full">>
    /\ Len(layers) = 2
    /\ template_layers = <<3, 3, 1>>
    /\ processing_result.strategy = "partial_visible"
    /\ processing_result.total = <<6>>

(* C2: TemplateBasedPartialProcessor.process on a non-empty list sorted ascending *)
(* by avg_y returns (sum of the template without its last entry, 0 for a template *)
(* of at most one entry) + the box count of the height-filtered top layer.        *)
C2_PartialTotal ==
    (RanOnFilteredTop("partial") /\ layers0 # <<>> /\ IsSortedByAvgY(layers0)) =>
        ReturnedTotal(SumTo(template_layers, Len(template_layers) - 1)
                      + FilteredCount(layers0[1].boxes))

(* a top layer of 2 boxes under template [3,3,3] gives 3 + 3 + 2 = 8 *)
C2_Witness ==
    /\ op = "process"
    /\ invoked = <<"partial">>
    /\ Len(layers0) = 2
    /\ IsSortedByAvgY(layers0)
    /\ template_layers = <<3, 3, 3>>
    /\ Len(layers0[1].boxes) = 3
    /\ FilteredCount(layers0[1].boxes) = 2
    /\ processing_result.total = <<8>>

(* C3: TemplateBasedSingleLayerProcessor.process returns the number of top-class  *)
(* detections centred inside the pile ROI, and when there is none the box count   *)
(* of the height-filtered sole layer.                                             *)
C3_SingleTotal ==
    (RanOnFilteredTop("single") /\ layers0 # <<>>
         /\ detection_result.pile_roi = <<pile_roi>>) =>
        IF TopsInsideRoi # {}
        THEN ReturnedTotal(Cardinality(TopsInsideRoi))
        ELSE ReturnedTotal(FilteredCount(layers0[1].boxes))

(* one layer of three boxes, two top-class detections of which one inside: total 1 *)
C3_Witness ==
    /\ op = "process"
    /\ invoked = <<"single">>
    /\ Len(layers0[1].boxes) = 3
    /\ Len(yolo_detections) = 2
    /\ Cardinality(TopsInsideRoi) = 1
    /\ processing_result.total = <<1>>

(* C4: with two or more layers detect decides by first match: O_top = C_top gives *)
(* full/match_template; otherwise coverage > 0.9 and cv_gap < 0.4 gives           *)
(* full/continuous_filled; otherwise partial/low_coverage_or_gap.                 *)
C4_FirstMatch ==
    (op \in {"detect", "process"} /\ Len(layers0) >= 2) =>
        IF FilteredCount(TopLayerOf(layers0).boxes) = TemplateTop
        THEN detection_result.status = "full"
             /\ detection_result.reason = "match_template"
        ELSE IF coverage_above_threshold(
                    calc_coverage(TopLayerOf(layers).boxes, pile_roi))
                /\ cv_gap_below_threshold(calc_cv_gap(TopLayerOf(layers).boxes))
        THEN detection_result.status = "full"
             /\ detection_result.reason = "continuous_filled"
        ELSE detection_result.status = "partial"
             /\ detection_result.reason = "low_coverage_or_gap"

(* rule (1) wins although the coverage of the single narrow top box is 1/8 *)
C4_Witness ==
    /\ op = "detect"
    /\ Len(layers0) = 2
    /\ TemplateTop = 1
    /\ Len(TopLayerOf(layers).boxes) = 1
    /\ ~coverage_above_threshold(calc_coverage(TopLayerOf(layers).boxes, pile_roi))
    /\ detection_result.reason = "match_template"

(* C5: the layer count decides before any statistic: one layer gives single_layer *)
(* with top_layer = {expected: template[0] or 0, observed: filtered count}; zero  *)
(* layers give partial / empty_layers / top_layer null.                           *)
C5_LayerCountFirst ==
    (op \in {"detect", "process"}) =>
        /\ Len(layers0) = 1 =>
               /\ detection_result.status = "single_layer"
               /\ detection_result.top_layer =
                      <<[index |-> 1, expected |-> TemplateTop,
                         observed |-> FilteredCount(layers0[1].boxes)]>>
        /\ Len(layers0) = 0 =>
               /\ detection_result.status = "partial"
               /\ detection_result.reason = "empty_layers"
               /\ detection_result.top_layer = <<>>

(* one wide box matching template[0] = 1 and covering the whole ROI is still      *)
(* single_layer                                                                   *)
C5_Witness ==
    /\ op = "detect"
    /\ Len(layers0) = 1
    /\ template_layers = <<1, 3>>
    /\ Len(layers0[1].boxes) = 2
    /\ FilteredCount(layers0[1].boxes) = 1
    /\ coverage_above_threshold(calc_coverage(layers[1].boxes, pile_roi))
    /\ detection_result.status = "single_layer"

ProcessorOfStatus ==
    CASE detection_result.status = "full" -> "full"
      [] detection_result.status = "partial" -> "partial"
      [] detection_result.status = "single_layer" -> "single"
      [] OTHER -> "none"

StrategiesOf(name) ==
    CASE name = "full" -> {"full_match", "partial_visible", "exceed_template"}
      [] name = "partial" -> {"partial_with_template", "raised"}
      [] name = "single" -> {"single_layer_with_top_class", "single_layer_fallback"}
      [] OTHER -> {}

(* C6: Factory.process invokes exactly one strategy processor, the one of the     *)
(* classifier status, and returns that processor's total.                         *)
C6_OneProcessor ==
    (total_count.via \in {"process", "count"}) =>
        /\ invoked = <<ProcessorOfStatus>>
        /\ processing_result.strategy \in StrategiesOf(ProcessorOfStatus)
        /\ total_count.returned = processing_result.total
        /\ total_count.raised = processing_result.raised

C6_Witness ==
    /\ op = "process"
    /\ detection_result.status = "single_layer"
    /\ invoked = <<"single">>
    /\ total_count.returned = <<2>>

(* C7: calling Factory.process again with the same arguments, on the layer        *)
(* objects the earlier call has already processed, returns an identical result.   *)
C7_RepeatedCall ==
    (op = "process" /\ calls >= 2) =>
        /\ processing_result = prev_result
        /\ total_count.returned = prev_result.total

(* the first call has dropped a box of the top layer in place *)
C7_Witness ==
    /\ op = "process"
    /\ calls = 2
    /\ layers # layers0
    /\ processing_result.raised = NoException
    /\ processing_result = prev_result

SumCounts(ls) == SumAll([i \in 1..Len(ls) |-> Len(ls[i].boxes)])

(* C8: when the pile has no configured template, the total count() produces for   *)
(* a pile of two or more layers equals the sum of the per-layer detected box      *)
(* counts, whether these are counted on the clustered layers, on the layers kept  *)
(* by _process_layers, or after the height filter of the top layer.               *)
C8_EmptyTemplateSum ==
    (total_count.via = "count" /\ template_layers = <<>> /\ Len(layers) >= 2) =>
        /\ total_count.raised = NoException
        /\ total_count.returned \in { <<SumCounts(layers0)>>,
                                      <<SumCounts(process_layers(layers0))>>,
                                      <<SumCounts(layers)>> }

(* position of layer i of ls in ascending avg_y order *)
RankOf(ls, i) == 1 + Cardinality({ j \in 1..Len(ls) : ls[j].avg_y < ls[i].avg_y })

MatchesTemplate(ls, t) ==
    /\ Len(ls) = Len(t)
    /\ \A i \in 1..Len(ls) : Len(ls[i].boxes) = t[RankOf(ls, i)]

(* C9 as stated: every non-empty layer list that matches the template in length   *)
(* and in per-layer box counts is classified full and totals the whole template.  *)
C9_MatchIsFull ==
    (op = "process" /\ layers0 # <<>> /\ MatchesTemplate(layers0, template_layers)) =>
        /\ detection_result.status = "full"
        /\ ReturnedTotal(SumAll(template_layers))

(* C9, amended: every layer list of at least two layers that matches the template *)
(* in length and in per-layer box counts, and whose top layer loses no box to the *)
(* height filter, is classified full and totals the whole template.               *)
C9_MatchIsFullAmended ==
    (/\ op = "process"
     /\ Len(layers0) >= 2
     /\ MatchesTemplate(layers0, template_layers)
     /\ IsHeightFiltered(TopLayerOf(layers0).boxes)) =>
        /\ detection_result.status = "full"
        /\ ReturnedTotal(SumAll(template_layers))

(* three narrow top boxes over three boxes, template [3,3]: full by template      *)
(* match although the coverage is low, total 6                                    *)
C9_Witness ==
    /\ op = "process"
    /\ calls = 1
    /\ Len(layers0) = 2
    /\ template_layers = <<3, 3>>
    /\ MatchesTemplate(layers0, template_layers)
    /\ IsHeightFiltered(TopLayerOf(layers0).boxes)
    /\ ~coverage_above_threshold(calc_coverage(TopLayerOf(layers0).boxes, pile_roi))
    /\ detection_result.reason = "match_template"
    /\ processing_result.total = <<6>>

(* C10: Factory.process called with an empty layer list yields total 0. *)
C10_EmptyLayersZero ==
    (op = "process" /\ layers0 = <<>>) =>
        /\ total_count.raised = NoException
        /\ total_count.returned = <<0>>

----------------------------------------------------------------------------
(* count(): early returns, validation, template fallback *)

ValidationPassed == op = "count" /\ env.handles.raised = NoException

(* C11: when count() gets no detections from the detector, no scene from the      *)
(* scene selection, or no layers from the clustering, it returns 0, raises        *)
(* nothing, and neither the classifier nor any strategy processor has run.        *)
C11_EmptyCountZero ==
    (ValidationPassed /\ (~env.detections \/ ~env.prepared \/ layers0 = <<>>)) =>
        /\ total_count.raised = NoException
        /\ total_count.returned = <<0>>
        /\ detection_result.status = "none"
        /\ invoked = <<>>
        /\ processing_result = NoResult

(* detections and a scene, but the clustering yields no layer *)
C11_Witness ==
    /\ ValidationPassed
    /\ env.detections
    /\ env.prepared
    /\ layers0 = <<>>
    /\ env.predict_calls = 1
    /\ total_count.via = "no_layers"
    /\ total_count.returned = <<0>>

(* horizontal extent of a layer: max - min over the member boxes' x1 / x2 *)
HorizontalExtent(l) ==
    extent(Map(l.boxes, LAMBDA b : b.roi.x1) \o Map(l.boxes, LAMBDA b : b.roi.x2))

TopLayerDropped == Len(layers) = Len(layers0) - 1

(* C12: with two or more layers, the fake-top filter drops the top layer exactly  *)
(* when the horizontal extent of the top layer is less than 0.7 of the horizontal *)
(* extent of the layer below it (width_top / max(width_next, eps) < 0.7).         *)
C12_FakeTopByWidth ==
    (ValidationPassed /\ Len(layers0) >= 2) =>
        (TopLayerDropped <=>
            ratio_below_threshold(HorizontalExtent(layers0[1]),
                                  HorizontalExtent(layers0[2])))

(* the boxes of a list at least half as high as its highest box, in their order *)
KeptByHeight(boxes) ==
    LET AtLeastHalf(b) == \A j \in 1..Len(boxes) : 2 * HeightOf(b) >= HeightOf(boxes[j])
    IN SelectSeq(boxes, AtLeastHalf)

TopIndexOf(ls) ==
    CHOOSE i \in 1..Len(ls) : \A j \in 1..Len(ls) : ls[i].avg_y <= ls[j].avg_y

(* the layer list the classifier is given *)
ClassifierInput == IF op = "count" THEN process_layers(layers0) ELSE layers0

Classified ==
    /\ op \in {"detect", "process", "count"}
    /\ op = "count" => ValidationPassed
    /\ layers0 # <<>>

(* C13: after classification the topmost (or only) layer holds exactly its boxes  *)
(* of height >= 0.5 * the layer's maximum box height, and every other layer is    *)
(* as it was given.                                                               *)
C13_TopHeightFiltered ==
    Classified =>
        /\ Len(layers) = Len(ClassifierInput)
        /\ \A i \in 1..Len(layers) :
              layers[i] =
                  IF i = TopIndexOf(ClassifierInput)
                  THEN [ClassifierInput[i] EXCEPT
                            !.boxes = KeptByHeight(ClassifierInput[i].boxes)]
                  ELSE ClassifierInput[i]

(* the top layer is handed over last; a box of exactly half the maximum height is *)
(* kept and a lower one dropped                                                   *)
C13_Witness ==
    /\ op = "process"
    /\ calls = 1
    /\ Len(layers0) = 2
    /\ TopIndexOf(layers0) = 2
    /\ layers0[2].boxes = <<BoxKinds[1], BoxKinds[2], BoxKinds[3]>>
    /\ layers[2].boxes = <<BoxKinds[1], BoxKinds[2]>>
    /\ layers[1] = layers0[1]

----------------------------------------------------------------------------
(* Depth inputs and degenerate pile ROIs *)

PartialRan == invoked = <<"partial">> /\ op \in {"partial", "process"}

(* C14: the result of the Partial strategy is the one it gives without any depth  *)
(* input, whether a depth array or a depth matrix CSV is absent, usable, or       *)
(* fails to sample.                                                               *)
C14_DepthIndependent ==
    PartialRan =>
        processing_result =
            partial_process(layers, template_layers, detection_result, "None", NoCsv,
                            enable_debug)

Sampled == depth_sample.impl \in {"depth_processor", "processor"}

SampledX == pixel_index(depth_sample.norm_x, matrix_width(depth_csv))

SampledY == pixel_index(depth_sample.norm_y, matrix_height(depth_csv))

SampledOutside ==
    SampledX < 0 \/ SampledX >= Len(depth_csv[1]) \/ SampledY < 0 \/ SampledY >= Len(depth_csv)

(* no positive depth within two pixels of the sampled one *)
NoPositiveNear ==
    \A r \in 1..Len(depth_csv), c \in 1..Len(depth_csv[1]) :
        (Abs(r - 1 - SampledY) <= 2 /\ Abs(c - 1 - SampledX) <= 2) => depth_csv[r][c] <= 0

(* C15: extract_depth_at_position never raises; a point outside the matrix or a   *)
(* neighbourhood without a positive sample gives a result with success false; and *)
(* the Partial strategy given such a matrix returns the lower-layer sum plus the   *)
(* detected top boxes.                                                            *)
C15_ExtractNeverRaises ==
    /\ Sampled =>
          /\ depth_sample.result.raised = NoException
          /\ (SampledOutside \/ NoPositiveNear) => ~depth_sample.result.success
    /\ depth_sample.impl = "partial" =>
          /\ total_count.raised = NoException
          /\ total_count.returned =
                 <<lower_layers_sum(template_layers) + Len(layers[1].boxes)>>

PathMissing ==
    env.files.image = "missing" \/ env.files.model = "missing" \/ env.files.config = "missing"

(* C16: count_boxes / count() given an image, model or pile-configuration path    *)
(* that does not exist raises FileNotFoundError: no count is returned, the        *)
(* detector is never invoked, and no load is attempted a second time.             *)
C16_MissingPathRaises ==
    (op = "count" /\ PathMissing) =>
        /\ total_count.raised = "FileNotFoundError"
        /\ total_count.returned = <<>>
        /\ env.predict_calls = 0
        /\ detection_result.status = "none"
        /\ invoked = <<>>
        /\ env.handles.model_attempts <= 1
        /\ env.handles.db_attempts <= 1

(* the image is there, the model file is not: one load attempt, then the raise *)
C16_Witness ==
    /\ op = "count"
    /\ env.files.image = "exists"
    /\ env.files.model = "missing"
    /\ env.handles.model_attempts = 1
    /\ ~env.handles.model_loaded
    /\ total_count.raised = "FileNotFoundError"
    /\ total_count.via = "validate"

(* C17: in count(), a depth image that is missing, unreadable, or whose loading   *)
(* raises never aborts the call: depth_image and depth_image_path_for_processing  *)
(* are both None and the call goes on to return a count.                          *)
C17_DepthLoadNeverAborts ==
    (op = "count" /\ ~PathMissing
        /\ env.files.depth_file \in {"missing", "unreadable", "raises"}) =>
        /\ depth_image = "None"
        /\ env.depth_image_path_for_processing = "None"
        /\ total_count.raised = NoException
        /\ Len(total_count.returned) = 1

(* loading the depth image raises; the pile is classified and counted all the same *)
C17_Witness ==
    /\ op = "count"
    /\ env.files.depth_file = "raises"
    /\ depth_image = "None"
    /\ env.depth_image_path_for_processing = "None"
    /\ Len(layers0) = 2
    /\ invoked = <<"partial">>
    /\ total_count.via = "count"
    /\ total_count.returned = processing_result.total
    /\ Len(total_count.returned) = 1

Counted == ValidationPassed /\ layers0 # <<>>

(* the layers _process_layers keeps: all of them, or all but a fake top layer *)
KeptLayers == IF TopLayerDropped THEN Tail(layers0) ELSE layers0

(* C18: when the pile database has no template for the pile id, count() raises    *)
(* nothing and uses a template with one entry per layer kept after fake-top       *)
(* removal, each entry the layer's raw box count (before the height filter).      *)
C18_SynthesizedTemplate ==
    (Counted /\ template_layers = <<>>) =>
        /\ total_count.raised = NoException
        /\ Len(total_count.returned) = 1
        /\ Len(env.template_layers) = Len(KeptLayers)
        /\ \A i \in 1..Len(KeptLayers) : env.template_layers[i] = Len(KeptLayers[i].boxes)

(* three top boxes of which the height filter keeps two, over one box: the        *)
(* synthesized template is [3, 1]                                                 *)
C18_Witness ==
    /\ Counted
    /\ template_layers = <<>>
    /\ Len(layers0) = 2
    /\ ~TopLayerDropped
    /\ Len(layers0[1].boxes) = 3
    /\ Len(layers[1].boxes) = 2
    /\ env.template_layers = <<3, 1>>
    /\ total_count.raised = NoException

DegenerateRoi == pile_roi.x1 = pile_roi.x2 \/ pile_roi.y1 = pile_roi.y2

(* C19: process() given a pile ROI of zero width or zero height (and no depth     *)
(* image) raises no error: classification and counting complete and return a     *)
(* total.                                                                         *)
C19_DegenerateRoiCounts ==
    (op = "process" /\ layers0 # <<>> /\ DegenerateRoi /\ depth_image = "None") =>
        /\ total_count.raised = NoException
        /\ Len(total_count.returned) = 1

(* length of the union of the boxes' x-intervals, counted in unit cells *)
UnionLength(boxes) ==
    Cardinality({ c \in 0..9 : \E i \in 1..Len(boxes) :
                                  boxes[i].roi.x1 <= c /\ c < boxes[i].roi.x2 })

RoiWidth == pile_roi.x2 - pile_roi.x1

(* num / den = n / d for d # 0 *)
EqualsQuotient(fraction, n, d) == fraction.num * d = n * fraction.den

(* C20: for every non-empty list of top-layer boxes with x1 < x2 and every pile   *)
(* ROI, _calc_coverage returns a value in [0,1]: the length of the union of the   *)
(* boxes' x-intervals divided by the ROI width, capped at 1.                      *)
C20_CoverageInUnitInterval ==
    coverage_result.applied =>
        /\ coverage_result.raised = NoException
        /\ 0 <= coverage_result.value.num
        /\ coverage_result.value.num <= coverage_result.value.den
        /\ IF UnionLength(layers[1].boxes) >= RoiWidth
           THEN coverage_result.value.num = coverage_result.value.den
           ELSE EqualsQuotient(coverage_result.value, UnionLength(layers[1].boxes), RoiWidth)

----------------------------------------------------------------------------
(* Layers from the clusterer to the classifier *)

SmallestAvgYFirst(ls) == \A i \in 1..Len(ls) : ls[1].avg_y <= ls[i].avg_y

(* C21: in count() the fake-top pass gets the layers with the smallest-avg_y      *)
(* layer first, and what _process_layers hands on is sorted ascending by avg_y    *)
(* with index = position, so index 1 is the layer of smallest avg_y.              *)
C21_SortedAndIndexed ==
    /\ op = "cluster_layers" => SmallestAvgYFirst(layers)
    /\ op = "process_layers" =>
          /\ \A i \in 1..(Len(layers) - 1) : layers[i].avg_y <= layers[i + 1].avg_y
          /\ \A i \in 1..Len(layers) : layers[i].index = i
          /\ SmallestAvgYFirst(layers)

(* two rows of boxes of which the fake-top pass drops the upper one: the layer    *)
(* that was second is handed on with index 1                                      *)
C21_Witness ==
    /\ op = "process_layers"
    /\ Len(cluster_layers_with_box_roi(prepared_boxes)) = 2
    /\ Len(layers) = 1
    /\ layers[1].index = 1
    /\ layers[1].boxes = cluster_layers_with_box_roi(prepared_boxes)[2].boxes

----------------------------------------------------------------------------
(* The layer clusterer *)

RECURSIVE all_boxes(_)
all_boxes(ls) == IF ls = <<>> THEN <<>> ELSE ls[1].boxes \o all_boxes(Tail(ls))

(* the layer holding position p of the boxes in order of center *)
RECURSIVE layer_at(_, _)
layer_at(ls, p) ==
    IF p <= Len(ls[1].boxes) THEN 1 ELSE 1 + layer_at(Tail(ls), p - Len(ls[1].boxes))

(* the first position of layer k *)
first_position(ls, k) == Len(all_boxes(SubSeq(ls, 1, k - 1))) + 1

(* gap between positions p and p+1 <= gap_ratio * mean height of the boxes of     *)
(* p's layer up to p                                                              *)
WithinGap(ls, p) ==
    (y_center(all_boxes(ls)[p + 1]) - y_center(all_boxes(ls)[p]))
            * gap_ratio_den * (p - first_position(ls, layer_at(ls, p)) + 1)
        <= 2 * gap_ratio_num
             * sum_heights(SubSeq(all_boxes(ls), first_position(ls, layer_at(ls, p)), p))

AtGapLimit(ls, p) ==
    (y_center(all_boxes(ls)[p + 1]) - y_center(all_boxes(ls)[p]))
            * gap_ratio_den * (p - first_position(ls, layer_at(ls, p)) + 1)
        = 2 * gap_ratio_num
             * sum_heights(SubSeq(all_boxes(ls), first_position(ls, layer_at(ls, p)), p))

(* C23: the clusterer puts consecutive boxes (in order of vertical center) in the *)
(* same layer exactly when their gap is at most gap_ratio (0.6) times the running *)
(* average box height; every box is in exactly one layer, no layer is empty,      *)
(* avg_y is the mean of the members' centers, and no boxes give no layers.        *)
C23_ClusterByGap ==
    op = "cluster_layers" =>
        /\ all_boxes(layers) = sorted_by_center(prepared_boxes)
        /\ Len(all_boxes(layers)) = Len(prepared_boxes)
        /\ \A b \in { prepared_boxes[q] : q \in 1..Len(prepared_boxes) } :
              Cardinality({ p \in 1..Len(prepared_boxes) : prepared_boxes[p] = b })
                = Cardinality({ p \in 1..Len(all_boxes(layers)) : all_boxes(layers)[p] = b })
        /\ \A p \in 1..(Len(prepared_boxes) - 1) :
              /\ y_center(all_boxes(layers)[p]) <= y_center(all_boxes(layers)[p + 1])
              /\ (layer_at(layers, p) = layer_at(layers, p + 1)) <=> WithinGap(layers, p)
        /\ \A k \in 1..Len(layers) :
              /\ layers[k].boxes # <<>>
              /\ layers[k].avg_y * Len(layers[k].boxes)
                    = AvgScale * SumSeq(Map(layers[k].boxes, y_center))
        /\ prepared_boxes = <<>> => layers = <<>>

(* boxes in two layers, with two neighbours whose gap is exactly the limit kept   *)
(* together                                                                       *)
C23_Witness ==
    /\ op = "cluster_layers"
    /\ Len(layers) = 2
    /\ \E p \in 1..(Len(prepared_boxes) - 1) :
          /\ AtGapLimit(layers, p)
          /\ layer_at(layers, p) = layer_at(layers, p + 1)

----------------------------------------------------------------------------
(* Concurrent invocations *)

(* C22: under every interleaving of two count() invocations on one factory, the   *)
(* depth image the classifier and the strategy of an invocation read is the one    *)
(* that invocation loaded in its own validation.                                   *)
C22_ReadsOwnDepthImage ==
    \A i \in 1..Len(invocations) :
        /\ invocations[i].pc \in {"classified", "done"} =>
              invocations[i].classifier_read = invocations[i].loaded
        /\ invocations[i].pc = "done" =>
              invocations[i].strategy_read = invocations[i].loaded

----------------------------------------------------------------------------
(* The rear-box filter *)

Occurrences(boxes, b) == Cardinality({ p \in 1..Len(boxes) : boxes[p] = b })

(* center of b >= mean center of the layer, by the layer's avg_y *)
AtOrBelowMean(layer, b) == y_center(b) * AvgScale >= layer.avg_y

----------------------------------------------------------------------------
(* The template entry the Partial strategy leaves out *)

(* the template entries of the layers below the top layer, template[0] being the  *)
(* top layer's entry                                                              *)
BelowTopSum(template) == IF Len(template) > 1 THEN SumSeq(Tail(template)) ELSE 0

(* C25: the Partial strategy's total is the sum of the template entries of the    *)
(* layers below the top plus the observed top-layer count, the entry left out     *)
(* being template[0], the one the classifier compares the top layer against.      *)
C25_PartialLeavesOutTopEntry ==
    (/\ RanOnFilteredTop("partial")
     /\ layers0 # <<>>
     /\ IsSortedByAvgY(layers0)
     /\ processing_result.raised = NoException) =>
        processing_result.total =
            <<BelowTopSum(template_layers) + FilteredCount(layers0[1].boxes)>>

----------------------------------------------------------------------------
(* Debug and visualization flags *)

(* what count() returns for the same inputs with enable_debug off *)
TotalWithoutDebug(csv_path) ==
    [factory_process(process_layers(layers0), env.template_layers, pile_roi,
                     yolo_detections, depth_image, csv_path, FALSE).total_count
        EXCEPT !.via = "count"]

(* C26: for the same image, pile and depth input, the image handed to the         *)
(* detector and the total returned by count() are the same whatever the values    *)
(* of enable_debug and enable_visualization: the detector gets the image the      *)
(* caller named, and the total is the one of a run with the flags off.            *)
C26_FlagsAreSideChannel ==
    (op = "count" /\ env.predict_calls = 1) =>
        /\ env.processing_image_path = "image_path"
        /\ total_count.via = "count" =>
              \E csv_path \in processed_csv_paths(env.files.depth_file) :
                  total_count = TotalWithoutDebug(csv_path)

----------------------------------------------------------------------------
(* Layers reaching the classifier from count() *)

ReachedProcess == op = "count" /\ total_count.via = "count"

(* C27: within count() the classifier and the strategy processors are never      *)
(* reached with an empty layer list: after the no-layers return the fake-top      *)
(* pass removes at most one layer and only when two or more exist, so the         *)
(* classifier never answers empty_layers and no processor gets an empty list.     *)
C27_NeverEmptyInCount ==
    ReachedProcess =>
        /\ layers0 # <<>>
        /\ layers # <<>>
        /\ Len(layers) >= Len(layers0) - 1
        /\ Len(layers0) = 1 => Len(layers) = 1
        /\ invoked # <<>>
        /\ detection_result.reason # "empty_layers"
        /\ processing_result.strategy # "none"
        /\ processing_result.raised = "ValueError" => invoked = <<"partial">>

(* two clustered layers, the fake top dropped, the remaining one counted *)
C27_Witness ==
    /\ ReachedProcess
    /\ Len(layers0) = 2
    /\ Len(layers) = 1
    /\ detection_result.status = "single_layer"
    /\ total_count.raised = NoException

----------------------------------------------------------------------------
(* The height filter under other ratios *)

RatioInUnitInterval ==
    0 <= height_filter_ratio.num /\ height_filter_ratio.num <= height_filter_ratio.den

IsTallest(boxes, b) == \A j \in 1..Len(boxes) : HeightOf(b) >= HeightOf(boxes[j])

(* C28: the height filter is idempotent for every ratio: filtering the filtered   *)
(* list returns the same list; and for a ratio in [0,1] every box of maximum      *)
(* height survives, so a non-empty layer never becomes empty.                     *)
C28_HeightFilterIdempotent ==
    /\ [][op' = "filter_boxes_by_height_again" => layers' = layers]_vars
    /\ [](( /\ op \in {"filter_boxes_by_height", "filter_boxes_by_height_again"}
            /\ RatioInUnitInterval) =>
             /\ \A p \in 1..Len(layers0[1].boxes) :
                   IsTallest(layers0[1].boxes, layers0[1].boxes[p]) =>
                       Occurrences(layers[1].boxes, layers0[1].boxes[p])
                           = Occurrences(layers0[1].boxes, layers0[1].boxes[p])
             /\ layers0[1].boxes # <<>> => layers[1].boxes # <<>>)

(* three boxes of which the filter at ratio 1 keeps only the tallest, and keeps   *)
(* it when applied again                                                          *)
C28_Witness ==
    /\ op = "filter_boxes_by_height_again"
    /\ height_filter_ratio.num = height_filter_ratio.den
    /\ Len(layers0[1].boxes) = 3
    /\ Len(layers[1].boxes) = 1

----------------------------------------------------------------------------
(* The top layer of the classifier and of the strategy *)

(* process() has run a strategy on a list sorted ascending by avg_y *)
ProcessedSorted(name) ==
    /\ invoked = <<name>>
    /\ processing_result.raised = NoException
    /\ \/ op = "process" /\ IsSortedByAvgY(layers0)
       \/ op = "count"

(* C30: in Factory.process on layers sorted ascending by avg_y, the top-layer box *)
(* count the strategy uses (Partial: the boxes of layers[0]; Single fallback: the *)
(* boxes of the sole layer) equals the classifier's top_layer.observed, the        *)
(* classifier having replaced that layer's boxes in place by the filtered ones.    *)
C30_SameTopLayerCount ==
    /\ ProcessedSorted("partial") =>
          /\ processing_result.details.top_layer_observed
                = detection_result.top_layer[1].observed
          /\ Len(layers[1].boxes) = detection_result.top_layer[1].observed
    /\ (ProcessedSorted("single")
            /\ processing_result.strategy = "single_layer_fallback") =>
          /\ processing_result.details.observed = detection_result.top_layer[1].observed
          /\ Len(layers[1].boxes) = detection_result.top_layer[1].observed

(* a sorted pile whose top layer loses a box to the height filter and is counted  *)
(* by the Partial strategy with the filtered count                                *)
C30_Witness ==
    /\ ProcessedSorted("partial")
    /\ op = "process"
    /\ Len(layers0) = 2
    /\ Len(layers0[1].boxes) = 3
    /\ detection_result.top_layer[1].observed = 2
    /\ processing_result.details.top_layer_observed = 2

----------------------------------------------------------------------------
(* One factory, many calls *)

(* what a factory constructed afresh does with the inputs of the last call *)
FreshValidated == validate_inputs(env.constructed, env.files)

FreshOutcome(v) ==
    count_outcome(v, layers0, template_layers, pile_roi, yolo_detections, env.csv_path,
                  enable_debug)

====
